---- MODULE Spec2Model ----
(***************************************************************************)
(* A model of the apartment data pipeline of src/js/googleSheets.js        *)
(* (class GoogleSheetsManager): CSV tokenizer, anchor parser, field        *)
(* normalizer, sample fallback, query layer, and the asynchronous loadData *)
(* that ties them together.                                                *)
(*                                                                         *)
(* Representation.                                                         *)
(*  - A JavaScript string is a sequence of characters; a character is a    *)
(*    one-character TLA+ string for ASCII and a named token for the rest   *)
(*    ("CY_D" is the Cyrillic capital De, "cy_d" the small one, "EUR" the  *)
(*    euro sign, "SUP2" the superscript two, "CHK" the checked-box glyph).  *)
(*  - A JavaScript number is an integer count of tenths (Scale = 10), so   *)
(*    85.5 is 855 and the band test 15 < x < 500 reads 150 < x < 5000.     *)
(*    No cell value of the model has a non-zero digit after the first      *)
(*    decimal, so the representation is exact.  null and NaN are the       *)
(*    negative sentinels of the same name.                                 *)
(*  - undefined is the string "undefined" where a property may be absent.  *)
(***************************************************************************)
EXTENDS Integers, Sequences, FiniteSets, TLC

Scale == 10
null == -1
NaN == -2

Num(n) == n * Scale

(***************************************************************************)
(* Characters and the String.prototype methods the code uses.              *)
(***************************************************************************)
DigitChars == <<"0", "1", "2", "3", "4", "5", "6", "7", "8", "9">>

IsDigit(c) == \E i \in 1..10 : DigitChars[i] = c

DigitVal(c) == (CHOOSE i \in 1..10 : DigitChars[i] = c) - 1

UpperChars ==
    <<"A", "B", "C", "D", "E", "F", "G", "H", "I", "J", "K", "L", "M",
      "N", "O", "P", "Q", "R", "S", "T", "U", "V", "W", "X", "Y", "Z",
      "CY_A", "CY_V", "CY_D", "CY_E", "CY_ZH", "CY_I", "CY_K", "CY_L", "CY_M",
      "CY_N", "CY_O", "CY_P", "CY_R", "CY_S", "CY_T", "CY_U", "CY_TS", "CY_SH",
      "CY_B", "CY_Z">>

LowerChars ==
    <<"a", "b", "c", "d", "e", "f", "g", "h", "i", "j", "k", "l", "m",
      "n", "o", "p", "q", "r", "s", "t", "u", "v", "w", "x", "y", "z",
      "cy_a", "cy_v", "cy_d", "cy_e", "cy_zh", "cy_i", "cy_k", "cy_l", "cy_m",
      "cy_n", "cy_o", "cy_p", "cy_r", "cy_s", "cy_t", "cy_u", "cy_ts", "cy_sh",
      "cy_b", "cy_z">>

(* The two foldings as tables from character to character. *)
LowerMap ==
    [c \in {UpperChars[i] : i \in DOMAIN UpperChars} |->
        LowerChars[CHOOSE i \in DOMAIN UpperChars : UpperChars[i] = c]]

UpperMap ==
    [c \in {LowerChars[i] : i \in DOMAIN LowerChars} |->
        UpperChars[CHOOSE i \in DOMAIN LowerChars : LowerChars[i] = c]]

ToLowerChar(c) == IF c \in DOMAIN LowerMap THEN LowerMap[c] ELSE c

ToUpperChar(c) == IF c \in DOMAIN UpperMap THEN UpperMap[c] ELSE c

toLowerCase(s) == [i \in 1..Len(s) |-> ToLowerChar(s[i])]

toUpperCase(s) == [i \in 1..Len(s) |-> ToUpperChar(s[i])]

WhiteSpace == {" ", "TAB", "CR"}

RECURSIVE TrimStart(_)
TrimStart(s) ==
    IF s # <<>> /\ Head(s) \in WhiteSpace THEN TrimStart(Tail(s)) ELSE s

RECURSIVE TrimEnd(_)
TrimEnd(s) ==
    IF s # <<>> /\ s[Len(s)] \in WhiteSpace
    THEN TrimEnd(SubSeq(s, 1, Len(s) - 1))
    ELSE s

trim(s) == TrimEnd(TrimStart(s))

includes(s, p) ==
    \E i \in 0..(Len(s) - Len(p)) : SubSeq(s, i + 1, i + Len(p)) = p

startsWith(s, p) == Len(s) >= Len(p) /\ SubSeq(s, 1, Len(p)) = p

(* The number of leading digits of s from (1-based) position i on. *)
RECURSIVE DigitRun(_, _)
DigitRun(s, i) ==
    IF i <= Len(s) /\ IsDigit(s[i]) THEN 1 + DigitRun(s, i + 1) ELSE 0

RECURSIVE DecimalValue(_)
DecimalValue(ds) ==
    IF ds = <<>> THEN 0
    ELSE 10 * DecimalValue(SubSeq(ds, 1, Len(ds) - 1)) + DigitVal(ds[Len(ds)])

(* parseFloat of a string of digits and dots: the longest prefix of the     *)
(* form digits [. digits]; NaN when that prefix holds no digit.  In tenths. *)
parseFloat(s) ==
    LET k == DigitRun(s, 1)
        hasDot == k < Len(s) /\ s[k + 1] = "."
        m == IF hasDot THEN DigitRun(s, k + 2) ELSE 0
    IN  IF k = 0 /\ m = 0 THEN NaN
        ELSE DecimalValue(SubSeq(s, 1, k)) * Scale
             + (IF m > 0 THEN DigitVal(s[k + 2]) ELSE 0)

(* parseInt of a number (or null): the number is converted to its decimal   *)
(* string and the leading integer part is read back.                        *)
parseInt(x) == IF x < 0 THEN NaN ELSE (x \div Scale) * Scale

isNaN(x) == x = NaN

(***************************************************************************)
(* parseCSVLine: split at the commas outside quotes, drop the quotes, trim  *)
(***************************************************************************)
StripQuotes(s) == SelectSeq(s, LAMBDA c : c # "\"")

(* A variant of the scan that keeps the quote characters in the cell until  *)
(* the cell is pushed; it is what C22 rules out.                            *)
RECURSIVE CSVScan_keepsQuotes(_, _, _, _, _)
CSVScan_keepsQuotes(line, i, current, inQuotes, result) ==
    IF i > Len(line)
    THEN Append(result, StripQuotes(trim(current)))
    ELSE IF line[i] = "," /\ ~inQuotes
         THEN CSVScan_keepsQuotes(line, i + 1, <<>>, inQuotes,
                                  Append(result, StripQuotes(trim(current))))
         ELSE CSVScan_keepsQuotes(line, i + 1, Append(current, line[i]),
                                  IF line[i] = "\"" THEN ~inQuotes ELSE inQuotes,
                                  result)

RECURSIVE CSVScan(_, _, _, _, _)
CSVScan(line, i, current, inQuotes, result) ==
    IF i > Len(line)
    THEN Append(result, StripQuotes(trim(current)))
    ELSE IF line[i] = "\""
         THEN CSVScan(line, i + 1, current, ~inQuotes, result)
         ELSE IF line[i] = "," /\ ~inQuotes
              THEN CSVScan(line, i + 1, <<>>, inQuotes,
                           Append(result, StripQuotes(trim(current))))
              ELSE CSVScan(line, i + 1, Append(current, line[i]), inQuotes, result)

parseCSVLine(line) == CSVScan(line, 1, <<>>, FALSE, <<>>)

(***************************************************************************)
(* extractNumber: keep digits, dots and commas, turn commas into dots,      *)
(* parseFloat; null for an empty value or an unparsable one.                *)
(***************************************************************************)
CleanValue(value) ==
    LET kept == SelectSeq(value, LAMBDA c : IsDigit(c) \/ c = "." \/ c = ",")
    IN  [i \in 1..Len(kept) |-> IF kept[i] = "," THEN "." ELSE kept[i]]

extractNumber(value) ==
    IF value = <<>> THEN null
    ELSE LET num == parseFloat(CleanValue(value))
         IN  IF isNaN(num) THEN null ELSE num

(***************************************************************************)
(* The string literals of the code.                                         *)
(***************************************************************************)
K ==
    [status |-> <<"s", "t", "a", "t", "u", "s">>,
     statusMk |-> <<"cy_s", "cy_t", "cy_a", "cy_t", "cy_u", "cy_s">>,
     bedrooms |-> <<"b", "e", "d", "r", "o", "o", "m", "s">>,
     bedroom |-> <<"b", "e", "d", "r", "o", "o", "m">>,
     spalni |-> <<"cy_s", "cy_p", "cy_a", "cy_l", "cy_n", "cy_i">>,
     rooms |-> <<"r", "o", "o", "m", "s">>,
     br |-> <<"b", "r">>,
     floors |-> <<"f", "l", "o", "o", "r", "s">>,
     floor |-> <<"f", "l", "o", "o", "r">>,
     sprat |-> <<"cy_s", "cy_p", "cy_r", "cy_a", "cy_t">>,
     level |-> <<"l", "e", "v", "e", "l">>,
     etazh |-> <<"cy_e", "cy_t", "cy_a", "cy_zh">>,
     area |-> <<"a", "r", "e", "a">>,
     netArea |-> <<"n", "e", "t", " ", "a", "r", "e", "a">>,
     vkupno |-> <<"cy_v", "cy_k", "cy_u", "cy_p", "cy_n", "cy_o">>,
     m2Mk |-> <<"cy_m", "SUP2">>,
     m2 |-> <<"m", "2">>,
     surface |-> <<"s", "u", "r", "f", "a", "c", "e">>,
     total |-> <<"t", "o", "t", "a", "l">>,
     neto |-> <<"cy_n", "cy_e", "cy_t", "cy_o">>,
     net |-> <<"n", "e", "t">>,
     povrshina |->
         <<"cy_p", "cy_o", "cy_v", "cy_r", "cy_sh", "cy_i", "cy_n", "cy_a">>,
     square |-> <<"s", "q", "u", "a", "r", "e">>,
     price |-> <<"p", "r", "i", "c", "e">>,
     cena |-> <<"cy_ts", "cy_e", "cy_n", "cy_a">>,
     anchor1 |-> <<"a", "n", "c", "h", "o", "r", "1">>,
     anchor2 |-> <<"a", "n", "c", "h", "o", "r", "2">>,
     true |-> <<"t", "r", "u", "e">>,
     checked |-> <<"CHK">>,
     one |-> <<"1">>,
     two |-> <<"2">>,
     three |-> <<"3">>,
     officePrefix |-> <<"CY_D", "CY_P">>,
     doctype |->
         <<"<", "!", "D", "O", "C", "T", "Y", "P", "E", " ", "h", "t", "m", "l", ">">>,
     html |-> <<"<", "h", "t", "m", "l", ">">>,
     available |-> <<"a", "v", "a", "i", "l", "a", "b", "l", "e">>,
     reserved |-> <<"r", "e", "s", "e", "r", "v", "e", "d">>,
     sold |-> <<"s", "o", "l", "d">>,
     free |-> <<"f", "r", "e", "e">>,
     sloboden |->
         <<"cy_s", "cy_l", "cy_o", "cy_b", "cy_o", "cy_d", "cy_e", "cy_n">>,
     rezerviran |->
         <<"cy_r", "cy_e", "cy_z", "cy_e", "cy_r", "cy_v", "cy_i", "cy_r", "cy_a", "cy_n">>,
     prodaden |->
         <<"cy_p", "cy_r", "cy_o", "cy_d", "cy_a", "cy_d", "cy_e", "cy_n">>]

S ==
    [Type |-> <<"T", "y", "p", "e">>,
     TYPE |-> <<"T", "Y", "P", "E">>,
     Bedrooms |-> <<"B", "e", "d", "r", "o", "o", "m", "s">>,
     BEDROOMS |-> <<"B", "E", "D", "R", "O", "O", "M", "S">>,
     Floor |-> <<"F", "l", "o", "o", "r">>,
     FLOORS |-> <<"F", "L", "O", "O", "R", "S">>,
     NetArea |-> <<"N", "e", "t", " ", "A", "r", "e", "a">>,
     AREA |-> <<"A", "R", "E", "A">>,
     Price |-> <<"P", "r", "i", "c", "e">>,
     PRICE |-> <<"P", "R", "I", "C", "E">>,
     Status |-> <<"S", "t", "a", "t", "u", "s">>,
     STATUS |-> <<"S", "T", "A", "T", "U", "S">>,
     BR |-> <<"B", "R">>,
     Sloboden |->
         <<"CY_S", "cy_l", "cy_o", "cy_b", "cy_o", "cy_d", "cy_e", "cy_n">>,
     Rezerviran |->
         <<"CY_R", "cy_e", "cy_z", "cy_e", "cy_r", "cy_v", "cy_i", "cy_r", "cy_a", "cy_n">>,
     Prodaden |->
         <<"CY_P", "cy_r", "cy_o", "cy_d", "cy_a", "cy_d", "cy_e", "cy_n">>]

(***************************************************************************)
(* A JavaScript object with string keys is the sequence of its <<key,       *)
(* value>> pairs in insertion order; assigning to an existing key keeps the *)
(* key's position.  Object.entries lists the keys that are array indices    *)
(* first, in ascending numeric order, then the other keys in insertion      *)
(* order.  An array index is a canonical decimal below 2^32 - 1; every key  *)
(* of up to nine digits is one, and the model has no longer numeric key.    *)
(***************************************************************************)
(* A variant of the assignment that leaves an existing key as it is; it is  *)
(* what C18 rules out.                                                      *)
ObjSet_keepFirst(obj, key, val) ==
    IF \E i \in 1..Len(obj) : obj[i][1] = key
    THEN obj
    ELSE Append(obj, <<key, val>>)

ObjSet(obj, key, val) ==
    IF \E i \in 1..Len(obj) : obj[i][1] = key
    THEN [i \in 1..Len(obj) |-> IF obj[i][1] = key THEN <<key, val>> ELSE obj[i]]
    ELSE Append(obj, <<key, val>>)

IsArrayIndex(key) ==
    /\ key # <<>>
    /\ \A i \in 1..Len(key) : IsDigit(key[i])
    /\ (Len(key) = 1 \/ key[1] # "0")
    /\ Len(key) <= 9

RECURSIVE SortByIndex(_)
SortByIndex(pairs) ==
    IF pairs = <<>> THEN <<>>
    ELSE LET least == CHOOSE i \in 1..Len(pairs) :
                          \A j \in 1..Len(pairs) :
                              DecimalValue(pairs[i][1]) <= DecimalValue(pairs[j][1])
         IN  <<pairs[least]>>
             \o SortByIndex(SubSeq(pairs, 1, least - 1)
                            \o SubSeq(pairs, least + 1, Len(pairs)))

ObjectEntries(obj) ==
    SortByIndex(SelectSeq(obj, LAMBDA p : IsArrayIndex(p[1])))
    \o SelectSeq(obj, LAMBDA p : ~IsArrayIndex(p[1]))

(***************************************************************************)
(* parseAnchorSystem                                                        *)
(***************************************************************************)
(* row[i] || '' for a 0-based index i. *)
Cell(row, i) == IF 0 <= i /\ i < Len(row) THEN row[i + 1] ELSE <<>>

(* lines[i] ? parseCSVLine(lines[i]) : [] for a 0-based index i. *)
RowAt(lines, i) == IF i < Len(lines) THEN parseCSVLine(lines[i + 1]) ELSE <<>>

(* A variant of FindAnchor that reports column 0 when no cell matches; it   *)
(* is what C5 rules out.                                                    *)
FindAnchor_columnZero(row1, marker) ==
    LET hits == {i \in 1..Len(row1) : includes(toLowerCase(row1[i]), marker)}
    IN  IF hits = {} THEN 0
        ELSE (CHOOSE i \in hits : \A j \in hits : j <= i) - 1

(* The 0-based index of the last cell of row 1 holding the marker, else -1. *)
FindAnchor(row1, marker) ==
    LET hits == {i \in 1..Len(row1) : includes(toLowerCase(row1[i]), marker)}
    IN  IF hits = {} THEN 0 - 1
        ELSE (CHOOSE i \in hits : \A j \in hits : j <= i) - 1

RECURSIVE ParseLegend(_, _, _, _)
ParseLegend(lines, anchor2Index, rowIndex, legend) ==
    IF rowIndex > 3 THEN legend
    ELSE IF rowIndex < Len(lines)
         THEN LET row == parseCSVLine(lines[rowIndex + 1])
                  statusValue == Cell(row, anchor2Index + 1)
                  displayText == Cell(row, anchor2Index + 2)
              IN  ParseLegend(lines, anchor2Index, rowIndex + 1,
                      IF statusValue # <<>> /\ displayText # <<>>
                      THEN ObjSet(legend, statusValue, displayText)
                      ELSE legend)
         ELSE ParseLegend(lines, anchor2Index, rowIndex + 1, legend)

isChecked(checkbox) ==
    \/ checkbox = K.checked
    \/ includes(toLowerCase(checkbox), K.true)
    \/ checkbox = K.one

ColumnConfigAt(lines, i) ==
    LET subject == Cell(RowAt(lines, 9), i)
    IN  [columnIndex |-> i,
         filterKeyword |-> Cell(RowAt(lines, 7), i),
         isVisible |-> isChecked(Cell(RowAt(lines, 8), i)),
         subject |-> subject,
         subjects |-> [mk |-> subject,
                       en |-> Cell(RowAt(lines, 3), i),
                       sq |-> Cell(RowAt(lines, 2), i)],
         columnLetter |-> 65 + i]

BuildColumnConfig(lines, anchor1Index, anchor2Index) ==
    IF anchor2Index - anchor1Index <= 1 THEN <<>>
    ELSE [k \in 1..(anchor2Index - anchor1Index - 1) |->
             ColumnConfigAt(lines, anchor1Index + k)]

RECURSIVE BuildData(_, _, _, _)
BuildData(columnConfig, row, k, data) ==
    IF k > Len(columnConfig) THEN data
    ELSE LET config == columnConfig[k]
         IN  BuildData(columnConfig, row, k + 1,
                 ObjSet(data, config.subject,
                        [value |-> Cell(row, config.columnIndex),
                         isVisible |-> config.isVisible,
                         filterKeyword |-> config.filterKeyword,
                         columnIndex |-> config.columnIndex,
                         subjects |-> config.subjects]))

NullString == <<"null">>

(* areaDetectionMethod holds the text of the method and the subject of the  *)
(* column the area was taken from; a record that has not been normalized    *)
(* has none.                                                                *)
NoDetection == [method |-> "undefined", subject |-> <<>>]

NewApartment(row, rowIndex, anchor1Index, columnConfig) ==
    [id |-> Cell(row, anchor1Index + 1),
     rowIndex |-> rowIndex,
     data |-> BuildData(columnConfig, row, 1, <<>>),
     status |-> "available",
     statusValue |-> NullString,
     bedrooms |-> null,
     floor |-> null,
     area |-> null,
     isOfficeSpace |-> "undefined",
     areaDetectionMethod |-> NoDetection]

(* A variant of the row loop that makes a record of every row, whatever its *)
(* id cell holds; it is what C14 rules out.                                 *)
RECURSIVE ParseApartments_everyRow(_, _, _, _, _)
ParseApartments_everyRow(lines, anchor1Index, columnConfig, rowIndex, apartments) ==
    IF rowIndex >= Len(lines) THEN apartments
    ELSE LET row == parseCSVLine(lines[rowIndex + 1])
         IN  ParseApartments_everyRow(lines, anchor1Index, columnConfig,
                 rowIndex + 1,
                 Append(apartments,
                        NewApartment(row, rowIndex, anchor1Index, columnConfig)))

RECURSIVE ParseApartments(_, _, _, _, _)
ParseApartments(lines, anchor1Index, columnConfig, rowIndex, apartments) ==
    IF rowIndex >= Len(lines) THEN apartments
    ELSE LET row == parseCSVLine(lines[rowIndex + 1])
         IN  ParseApartments(lines, anchor1Index, columnConfig, rowIndex + 1,
                 IF Len(row) > anchor1Index /\ Cell(row, anchor1Index + 1) # <<>>
                 THEN Append(apartments,
                             NewApartment(row, rowIndex, anchor1Index, columnConfig))
                 ELSE apartments)

FailedParse ==
    [success |-> FALSE, anchor1Index |-> 0 - 1, anchor2Index |-> 0 - 1,
     statusLegend |-> <<>>, columnConfig |-> <<>>, apartments |-> <<>>,
     rawLines |-> <<>>]

parseAnchorSystem(lines) ==
    LET row1 == parseCSVLine(lines[1])
        anchor1Index == FindAnchor(row1, K.anchor1)
        anchor2Index == FindAnchor(row1, K.anchor2)
        columnConfig == BuildColumnConfig(lines, anchor1Index, anchor2Index)
    IN  IF anchor1Index = 0 - 1 \/ anchor2Index = 0 - 1
        THEN FailedParse
        ELSE [success |-> TRUE,
              anchor1Index |-> anchor1Index,
              anchor2Index |-> anchor2Index,
              statusLegend |-> ParseLegend(lines, anchor2Index, 1, <<>>),
              columnConfig |-> columnConfig,
              apartments |-> ParseApartments(lines, anchor1Index, columnConfig,
                                             10, <<>>),
              rawLines |-> lines]

(***************************************************************************)
(* mapStatusValue                                                           *)
(***************************************************************************)
statusMapping ==
    << <<K.one, "available">>, <<K.two, "reserved">>, <<K.three, "sold">>,
       <<K.available, "available">>, <<K.reserved, "reserved">>,
       <<K.sold, "sold">>, <<K.free, "available">>,
       <<K.sloboden, "available">>, <<K.rezerviran, "reserved">>,
       <<K.prodaden, "sold">> >>

(* statusMapping is an object literal, so the lookup statusMapping[token]   *)
(* also finds what it inherits from Object.prototype.  The inherited keys   *)
(* that are their own lower-case form are constructor (a function) and      *)
(* __proto__ (an object); both values are truthy.                           *)
inheritedProperties ==
    << << <<"c", "o", "n", "s", "t", "r", "u", "c", "t", "o", "r">>, "function">>,
       << <<"_", "_", "p", "r", "o", "t", "o", "_", "_">>, "object">> >>

(* table[token], or "undefined" *)
Lookup(table, token) ==
    IF \E i \in 1..Len(table) : table[i][1] = token
    THEN table[CHOOSE i \in 1..Len(table) : table[i][1] = token][2]
    ELSE "undefined"

mapStatusValue(value) ==
    IF value = <<>> THEN "available"
    ELSE LET token == toLowerCase(trim(value))
             own == Lookup(statusMapping, token)
             inherited == Lookup(inheritedProperties, token)
         IN  IF own # "undefined" THEN own
             ELSE IF inherited # "undefined" THEN inherited
             ELSE "available"

(***************************************************************************)
(* calculateAreaPriority                                                    *)
(***************************************************************************)
calculateAreaPriority(subject, columnIndex) ==
    LET subjectLower == toLowerCase(subject)
        Has(p) == includes(subjectLower, p)
    IN    (IF columnIndex >= 3 THEN 10 ELSE 0)
        + (IF columnIndex >= 5 THEN 5 ELSE 0)
        + (IF Has(K.area) THEN 20 ELSE 0)
        + (IF Has(K.vkupno) THEN 25 ELSE 0)
        + (IF Has(K.total) THEN 15 ELSE 0)
        + (IF Has(K.m2Mk) \/ Has(K.m2) THEN 15 ELSE 0)
        + (IF Has(K.net) THEN 10 ELSE 0)
        + (IF Has(K.surface) THEN 10 ELSE 0)
        - (IF Has(K.price) THEN 20 ELSE 0)
        - (IF Has(K.cena) THEN 20 ELSE 0)
        - (IF Has(K.floor) THEN 15 ELSE 0)
        - (IF Has(K.sprat) THEN 15 ELSE 0)

(***************************************************************************)
(* extractAndProcessApartmentData, one record at a time.  An entry is a     *)
(* pair <<subject, fieldData>> of Object.entries(apartment.data).           *)
(***************************************************************************)
EntryKeyword(e) == trim(toLowerCase(e[2].filterKeyword))

EntryValue(e) == trim(e[2].value)

EntrySubjectLower(e) == toLowerCase(e[1])

(* The field tests of the direct scan (step 1). *)
StatusColumn(e) ==
    \/ EntryKeyword(e) = K.status
    \/ includes(EntryKeyword(e), K.status)
    \/ includes(EntrySubjectLower(e), K.status)
    \/ includes(EntrySubjectLower(e), K.statusMk)

BedroomColumn(e) ==
    \/ EntryKeyword(e) = K.bedrooms
    \/ includes(EntryKeyword(e), K.bedroom)
    \/ includes(EntrySubjectLower(e), K.spalni)
    \/ includes(EntrySubjectLower(e), K.bedroom)
    \/ includes(EntrySubjectLower(e), K.rooms)
    \/ includes(EntrySubjectLower(e), K.br)

FloorColumn(e) ==
    \/ EntryKeyword(e) = K.floors
    \/ includes(EntryKeyword(e), K.floor)
    \/ includes(EntrySubjectLower(e), K.sprat)
    \/ includes(EntrySubjectLower(e), K.floor)
    \/ includes(EntrySubjectLower(e), K.level)
    \/ includes(EntrySubjectLower(e), K.etazh)

AreaColumn(e) ==
    \/ EntryKeyword(e) = K.area
    \/ includes(EntryKeyword(e), K.area)
    \/ EntryKeyword(e) = K.netArea
    \/ includes(EntrySubjectLower(e), K.vkupno)
    \/ includes(EntrySubjectLower(e), K.area)
    \/ includes(EntrySubjectLower(e), K.m2Mk)
    \/ includes(EntrySubjectLower(e), K.m2)
    \/ includes(EntrySubjectLower(e), K.surface)
    \/ includes(EntrySubjectLower(e), K.total)

(* The range checks; a null or zero number is falsy and fails them. *)
(* A variant of the bedroom range that starts above one; it is what C19     *)
(* rules out.                                                               *)
BedroomInRange_aboveOne(n) == n > Num(1) /\ n <= Num(10)

BedroomInRange(n) == n > 0 /\ n <= Num(10)

FloorInRange(n) == n > 0 /\ n <= Num(50)

(* A variant of the band with no upper end; it is what C7 rules out. *)
AreaInBand_noUpperEnd(n) == n > Num(15)

AreaInBand(n) == n > Num(15) /\ n < Num(500)

BedroomHit(e) == BedroomColumn(e) /\ BedroomInRange(extractNumber(EntryValue(e)))

FloorHit(e) == FloorColumn(e) /\ FloorInRange(extractNumber(EntryValue(e)))

AreaHit(e) == AreaColumn(e) /\ AreaInBand(extractNumber(EntryValue(e)))

(* The subject patterns of the fallback scan (step 2). *)
areaPatterns ==
    <<K.neto, K.net, K.total, K.vkupno, K.povrshina, K.area, K.m2Mk, K.m2,
      K.square, K.surface>>

hasAreaPattern(e) ==
    \E i \in 1..Len(areaPatterns) : includes(EntrySubjectLower(e), areaPatterns[i])

SubjectHit(e) == hasAreaPattern(e) /\ AreaInBand(extractNumber(EntryValue(e)))

(* A variant of the candidate test with both ends of the range left out;    *)
(* it is what C20 rules out.                                                *)
IsCandidate_exclusive(e) ==
    LET numValue == extractNumber(EntryValue(e))
    IN  numValue > Num(20) /\ numValue < Num(300)

(* The candidates of the pattern analysis (step 2, second part). *)
IsCandidate(e) ==
    LET numValue == extractNumber(EntryValue(e))
    IN  numValue >= Num(20) /\ numValue <= Num(300)

(* candidateValues.sort((a, b) => b.priority - a.priority)[0]: the sort is  *)
(* stable, so the first candidate of the highest priority.                  *)
BestCandidate(candidates) ==
    LET P(i) == calculateAreaPriority(candidates[i][1], candidates[i][2].columnIndex)
        best == CHOOSE i \in 1..Len(candidates) :
                    /\ \A j \in 1..Len(candidates) : P(j) <= P(i)
                    /\ \A j \in 1..(i - 1) : P(j) < P(i)
    IN  candidates[best]

(* The least of the positions hits of the accepted entries, else 0. *)
FirstHit(hits) ==
    IF hits = {} THEN 0 ELSE CHOOSE i \in hits : \A j \in hits : i <= j

(* apartment.id.match(/(\d+)/): the first run of digits of the id, or <<>>. *)
FirstDigits(id) ==
    LET starts == {i \in 1..Len(id) : IsDigit(id[i])}
    IN  IF starts = {} THEN <<>>
        ELSE LET s == CHOOSE i \in starts : \A j \in starts : i <= j
             IN  SubSeq(id, s, s + DigitRun(id, s) - 1)

(* apartment.id.match(/^(\d+)\./): the leading digits when a dot follows. *)
LeadingFloor(id) ==
    LET k == DigitRun(id, 1)
    IN  IF k > 0 /\ k < Len(id) /\ id[k + 1] = "." THEN SubSeq(id, 1, k) ELSE <<>>

Min(a, b) == IF a <= b THEN a ELSE b

Max(a, b) == IF a >= b THEN a ELSE b

DefaultBedrooms(id) ==
    LET idMatch == FirstDigits(id)
    IN  IF idMatch # <<>>
        THEN Num(Min(Max((DecimalValue(idMatch) % 4) + 1, 1), 4))
        ELSE Num(2)

(* Math.floor(Math.random() * 9) + 1, for Math.random() = random / 100. *)
RandomFloor(random) == Num(((random * 9) \div 100) + 1)

DefaultFloor(id, random) ==
    LET floorMatch == LeadingFloor(id)
    IN  IF floorMatch # <<>> THEN Num(DecimalValue(floorMatch))
        ELSE RandomFloor(random)

defaultAreas == <<45, 75, 105, 135, 165>>

DefaultArea(isOffice, bedrooms) ==
    IF isOffice THEN Num(50)
    ELSE IF \E b \in 1..5 : bedrooms = Num(b)
         THEN Num(defaultAreas[bedrooms \div Scale])
         ELSE Num(80)

randomStatuses == <<"available", "available", "available", "reserved", "sold">>

StatusCode(status) ==
    IF status = "available" THEN K.one
    ELSE IF status = "reserved" THEN K.two ELSE K.three

(* A variant of the office test that does not fold case; it is what C3     *)
(* rules out.                                                               *)
isOfficeSpaceId_caseSensitive(id) == startsWith(trim(id), K.officePrefix)

isOfficeSpaceId(id) == startsWith(toUpperCase(trim(id)), K.officePrefix)

(* A variant of the forEach body whose subject-pattern fallback runs even   *)
(* when the direct scan has set the area, and overwrites it; it is what     *)
(* C16 rules out.                                                           *)
ProcessApartment_fallbackOverwrites(apartment, index, random) ==
    LET entries == ObjectEntries(apartment.data)
        isOffice == isOfficeSpaceId(apartment.id)
        (* step 1: direct scan, the first accepted column per field *)
        statusAt == FirstHit({i \in 1..Len(entries) : StatusColumn(entries[i])})
        bedroomAt == FirstHit({i \in 1..Len(entries) : BedroomHit(entries[i])})
        floorAt == FirstHit({i \in 1..Len(entries) : FloorHit(entries[i])})
        areaAt == FirstHit({i \in 1..Len(entries) : AreaHit(entries[i])})
        (* step 2: fallbacks for the area *)
        subjectAt == FirstHit({i \in 1..Len(entries) : SubjectHit(entries[i])})
        candidateValues ==
            IF areaAt = 0 /\ subjectAt = 0 THEN SelectSeq(entries, IsCandidate)
            ELSE <<>>
        bedrooms ==
            IF bedroomAt # 0 THEN extractNumber(EntryValue(entries[bedroomAt]))
            ELSE IF ~isOffice THEN DefaultBedrooms(apartment.id) ELSE null
        floor ==
            IF floorAt # 0 THEN extractNumber(EntryValue(entries[floorAt]))
            ELSE IF ~isOffice THEN DefaultFloor(apartment.id, random) ELSE 0
        status ==
            IF statusAt # 0 THEN mapStatusValue(EntryValue(entries[statusAt]))
            ELSE randomStatuses[(index % Len(randomStatuses)) + 1]
    IN  [apartment EXCEPT
            !.isOfficeSpace = IF isOffice THEN "true" ELSE "false",
            !.status = status,
            !.statusValue = IF statusAt # 0 THEN EntryValue(entries[statusAt])
                            ELSE StatusCode(status),
            !.bedrooms = bedrooms,
            !.floor = floor,
            !.area = IF subjectAt # 0
                       THEN extractNumber(EntryValue(entries[subjectAt]))
                     ELSE IF areaAt # 0
                       THEN extractNumber(EntryValue(entries[areaAt]))
                     ELSE IF candidateValues # <<>>
                       THEN extractNumber(EntryValue(BestCandidate(candidateValues)))
                     ELSE DefaultArea(isOffice, bedrooms),
            !.areaDetectionMethod =
                     IF subjectAt # 0
                       THEN [method |-> "subject",
                             subject |-> entries[subjectAt][1]]
                     ELSE IF areaAt # 0
                       THEN [method |-> "keyword",
                             subject |-> entries[areaAt][1]]
                     ELSE IF candidateValues # <<>>
                       THEN [method |-> "pattern",
                             subject |-> BestCandidate(candidateValues)[1]]
                     ELSE [method |-> "default", subject |-> <<>>]]

(* The record after the forEach body ran on it; index is its 0-based        *)
(* position and random the value Math.random() returns if it is asked.      *)
ProcessApartment(apartment, index, random) ==
    LET entries == ObjectEntries(apartment.data)
        isOffice == isOfficeSpaceId(apartment.id)
        (* step 1: direct scan, the first accepted column per field *)
        statusAt == FirstHit({i \in 1..Len(entries) : StatusColumn(entries[i])})
        bedroomAt == FirstHit({i \in 1..Len(entries) : BedroomHit(entries[i])})
        floorAt == FirstHit({i \in 1..Len(entries) : FloorHit(entries[i])})
        areaAt == FirstHit({i \in 1..Len(entries) : AreaHit(entries[i])})
        (* step 2: fallbacks for the area *)
        subjectAt ==
            IF areaAt = 0
            THEN FirstHit({i \in 1..Len(entries) : SubjectHit(entries[i])})
            ELSE 0
        candidateValues ==
            IF areaAt = 0 /\ subjectAt = 0 THEN SelectSeq(entries, IsCandidate)
            ELSE <<>>
        bedrooms ==
            IF bedroomAt # 0 THEN extractNumber(EntryValue(entries[bedroomAt]))
            ELSE IF ~isOffice THEN DefaultBedrooms(apartment.id) ELSE null
        floor ==
            IF floorAt # 0 THEN extractNumber(EntryValue(entries[floorAt]))
            ELSE IF ~isOffice THEN DefaultFloor(apartment.id, random) ELSE 0
        status ==
            IF statusAt # 0 THEN mapStatusValue(EntryValue(entries[statusAt]))
            ELSE randomStatuses[(index % Len(randomStatuses)) + 1]
    IN  [apartment EXCEPT
            !.isOfficeSpace = IF isOffice THEN "true" ELSE "false",
            !.status = status,
            !.statusValue = IF statusAt # 0 THEN EntryValue(entries[statusAt])
                            ELSE StatusCode(status),
            !.bedrooms = bedrooms,
            !.floor = floor,
            !.area = IF areaAt # 0
                       THEN extractNumber(EntryValue(entries[areaAt]))
                     ELSE IF subjectAt # 0
                       THEN extractNumber(EntryValue(entries[subjectAt]))
                     ELSE IF candidateValues # <<>>
                       THEN extractNumber(EntryValue(BestCandidate(candidateValues)))
                     ELSE DefaultArea(isOffice, bedrooms),
            !.areaDetectionMethod =
                     IF areaAt # 0
                       THEN [method |-> "keyword",
                             subject |-> entries[areaAt][1]]
                     ELSE IF subjectAt # 0
                       THEN [method |-> "subject",
                             subject |-> entries[subjectAt][1]]
                     ELSE IF candidateValues # <<>>
                       THEN [method |-> "pattern",
                             subject |-> BestCandidate(candidateValues)[1]]
                     ELSE [method |-> "default", subject |-> <<>>]]

RECURSIVE ProcessAll(_, _, _)
ProcessAll(apartments, index, randoms) ==
    IF index >= Len(apartments) THEN <<>>
    ELSE <<ProcessApartment(apartments[index + 1], index, randoms[index + 1])>>
         \o ProcessAll(apartments, index + 1, randoms)

(* A variant of the normalization that lets the random draw into the area;  *)
(* it is what C12 rules out.                                                *)
extractAndProcessApartmentData_jitter(apartments, randoms) ==
    [i \in 1..Len(apartments) |->
        LET r == ProcessApartment(apartments[i], i - 1, randoms[i])
        IN  [r EXCEPT !.area = IF randoms[i] > 50 THEN @ + Num(1) ELSE @]]

(* this.apartments after extractAndProcessApartmentData; randoms[i] is what *)
(* Math.random() returns while record i is processed.                       *)
extractAndProcessApartmentData(apartments, randoms) ==
    ProcessAll(apartments, 0, randoms)

(***************************************************************************)
(* loadSampleData                                                           *)
(***************************************************************************)
RECURSIVE NatToString(_)
NatToString(n) ==
    IF n < 10 THEN <<DigitChars[n + 1]>>
    ELSE NatToString(n \div 10) \o <<DigitChars[(n % 10) + 1]>>

(* x.toFixed(1) and Math.round(x) for a number x >= 0 in tenths. *)
toFixed1(x) == NatToString(x \div Scale) \o <<".">> \o NatToString(x % Scale)

MathRound(x) == ((x + (Scale \div 2)) \div Scale) * Scale

SampleFloors == 9
SampleUnits == 9
SampleLimit == 81

sampleStatuses == <<"available", "available", "available", "reserved", "sold">>

bedroomTypes == <<1, 2, 2, 3, 4>>

baseAreas == <<50, 75, 105, 135>>

SampleField(value, keyword) ==
    [value |-> value, isVisible |-> TRUE, filterKeyword |-> keyword]

SampleApartment(floor, unit, random) ==
    LET status == sampleStatuses[((floor + unit) % Len(sampleStatuses)) + 1]
        bedrooms == bedroomTypes[(unit % Len(bedroomTypes)) + 1]
        baseArea == IF bedrooms \in 1..4 THEN baseAreas[bedrooms] ELSE 80
        (* baseArea + Math.random() * 20 - 10, Math.random() = random / 100 *)
        area == Num(baseArea) + ((random * 20 * Scale) \div 100) - Num(10)
    IN  [id |-> NatToString(floor) \o <<".">> \o NatToString(unit),
         rowIndex |-> null,
         data |-> << <<S.Type, SampleField(NatToString(bedrooms) \o S.BR, S.TYPE)>>,
                     <<S.Bedrooms, SampleField(NatToString(bedrooms), S.BEDROOMS)>>,
                     <<S.Floor, SampleField(NatToString(floor), S.FLOORS)>>,
                     <<S.NetArea, SampleField(toFixed1(area), S.AREA)>>,
                     <<S.Status, SampleField(StatusCode(status), S.STATUS)>> >>,
         status |-> status,
         statusValue |-> StatusCode(status),
         bedrooms |-> Num(bedrooms),
         floor |-> Num(floor),
         area |-> MathRound(area),
         isOfficeSpace |-> "undefined",
         areaDetectionMethod |-> NoDetection]

(* The nested loops with their two breaks: unit runs fastest, and nothing   *)
(* is pushed once SampleLimit records exist.                                *)
RECURSIVE SampleLoop(_, _, _, _)
SampleLoop(floor, unit, randoms, apartments) ==
    IF floor > SampleFloors \/ Len(apartments) >= SampleLimit THEN apartments
    ELSE IF unit > SampleUnits THEN SampleLoop(floor + 1, 1, randoms, apartments)
    ELSE SampleLoop(floor, unit + 1, randoms,
             Append(apartments,
                    SampleApartment(floor, unit, randoms[Len(apartments) + 1])))

sampleStatusLegend ==
    << <<K.one, S.Sloboden>>, <<K.two, S.Rezerviran>>, <<K.three, S.Prodaden>> >>

SampleColumn(subject, keyword) ==
    [subject |-> subject, filterKeyword |-> keyword, isVisible |-> TRUE]

sampleColumnConfig ==
    <<SampleColumn(S.Type, S.TYPE), SampleColumn(S.Bedrooms, S.BEDROOMS),
      SampleColumn(S.Floor, S.FLOORS), SampleColumn(S.NetArea, S.AREA),
      SampleColumn(S.Price, S.PRICE), SampleColumn(S.Status, S.STATUS)>>

loadSampleData(randoms) ==
    [apartments |-> SampleLoop(1, 1, randoms, <<>>),
     statusLegend |-> sampleStatusLegend,
     columnConfig |-> sampleColumnConfig,
     isLoaded |-> TRUE]

(***************************************************************************)
(* The published sheet, as the input of the model.  A layout names the      *)
(* columns between the anchors (the first is the id column) and the data    *)
(* rows a sheet of that layout may hold; a sheet is a header with or        *)
(* without its anchors, the metadata rows and up to MaxRows data rows.      *)
(* Cells that hold a comma are quoted, as the CSV export does.              *)
(***************************************************************************)
MaxRows == 2

FullLayout ==
    [columns |-> <<
       [keyword |-> <<"i", "d">>, checkbox |-> <<"CHK">>,
        subject |-> <<"CY_S", "cy_t", "cy_a", "cy_n">>,
        en |-> <<"U", "n", "i", "t">>, sq |-> <<>>],
       [keyword |-> <<"b", "e", "d", "r", "o", "o", "m", "s">>, checkbox |-> <<"CHK">>,
        subject |-> <<"CY_S", "cy_p", "cy_a", "cy_l", "cy_n", "cy_i">>,
        en |-> <<"B", "e", "d", "r", "o", "o", "m", "s">>, sq |-> <<>>],
       [keyword |-> <<"f", "l", "o", "o", "r">>, checkbox |-> <<"T", "R", "U", "E">>,
        subject |-> <<"CY_S", "cy_p", "cy_r", "cy_a", "cy_t">>,
        en |-> <<"F", "l", "o", "o", "r">>, sq |-> <<>>],
       [keyword |-> <<"a", "r", "e", "a">>, checkbox |-> <<"1">>,
        subject |-> <<"CY_V", "cy_k", "cy_u", "cy_p", "cy_n", "cy_o", " ", "m", "2">>,
        en |-> <<"T", "o", "t", "a", "l", " ", "a", "r", "e", "a">>, sq |-> <<>>],
       [keyword |-> <<"s", "t", "a", "t", "u", "s">>, checkbox |-> <<>>,
        subject |-> <<"CY_S", "cy_t", "cy_a", "cy_t", "cy_u", "cy_s">>,
        en |-> <<"S", "t", "a", "t", "u", "s">>, sq |-> <<>>]>>,
     rows |-> <<
       <<<<"1", ".", "1">>, <<"2">>, <<"1">>, <<"7", "0">>, <<"1">>>>,
       <<<<"2", ".", "1">>, <<"3">>, <<"2">>, <<"9", "5">>, <<"s", "o", "l", "d">>>>,
       <<<<"CY_D", "CY_P", "3">>, <<"3">>, <<>>, <<"1", "2", "0">>, <<"2">>>>,
       <<<<"cy_d", "cy_p", "1">>, <<>>, <<>>, <<>>, <<>>>>,
       <<<<"A", "2">>, <<"2", ".", "5">>, <<"5", ".", "5">>, <<"8", "5", ",", "5", " ", "m", "SUP2">>, <<>>>>,
       <<<<"1", ".", "1">>, <<"1", "2">>, <<"6", "0">>, <<"6", "0", "0">>, <<"x">>>>>>]

PriceLayout ==
    [columns |-> <<
       [keyword |-> <<"i", "d">>, checkbox |-> <<"CHK">>,
        subject |-> <<"CY_S", "cy_t", "cy_a", "cy_n">>,
        en |-> <<"U", "n", "i", "t">>, sq |-> <<>>],
       [keyword |-> <<"p", "r", "i", "c", "e">>, checkbox |-> <<"CHK">>,
        subject |-> <<"CY_TS", "cy_e", "cy_n", "cy_a">>,
        en |-> <<"P", "r", "i", "c", "e">>, sq |-> <<>>]>>,
     rows |-> <<
       <<<<"1", ".", "1">>, <<"EUR", "1", "2", "5", ",", "0", "0", "0">>>>,
       <<<<"CY_D", "CY_P", "3">>, <<"EUR", "1", "2", "5", ",", "0", "0", "0">>>>,
       <<<<"A", "2">>, <<>>>>>>]

TotalPriceLayout ==
    [columns |-> <<
       [keyword |-> <<"i", "d">>, checkbox |-> <<"CHK">>,
        subject |-> <<"CY_S", "cy_t", "cy_a", "cy_n">>,
        en |-> <<"U", "n", "i", "t">>, sq |-> <<>>],
       [keyword |-> <<>>, checkbox |-> <<"CHK">>,
        subject |-> <<"T", "o", "t", "a", "l", " ", "p", "r", "i", "c", "e">>,
        en |-> <<"T", "o", "t", "a", "l", " ", "p", "r", "i", "c", "e">>, sq |-> <<>>]>>,
     rows |-> <<
       <<<<"1", ".", "1">>, <<"EUR", "1", "2", "5", ",", "0", "0", "0">>>>,
       <<<<"2", ".", "1">>, <<"EUR", "9", ",", "5", "0", "0">>>>>>]

NetPriceLayout ==
    [columns |-> <<
       [keyword |-> <<"i", "d">>, checkbox |-> <<"CHK">>,
        subject |-> <<"CY_S", "cy_t", "cy_a", "cy_n">>,
        en |-> <<"U", "n", "i", "t">>, sq |-> <<>>],
       [keyword |-> <<>>, checkbox |-> <<>>,
        subject |-> <<"N", "e", "t", " ", "p", "r", "i", "c", "e">>,
        en |-> <<"N", "e", "t", " ", "p", "r", "i", "c", "e">>, sq |-> <<>>]>>,
     rows |-> <<
       <<<<"1", ".", "1">>, <<"EUR", "1", "2", "5", ",", "0", "0", "0">>>>,
       <<<<"2", ".", "1">>, <<"EUR", "5", "1", "0", ",", "0", "0", "0">>>>>>]

PlainLayout ==
    [columns |-> <<
       [keyword |-> <<"i", "d">>, checkbox |-> <<"CHK">>,
        subject |-> <<"CY_S", "cy_t", "cy_a", "cy_n">>,
        en |-> <<"U", "n", "i", "t">>, sq |-> <<>>],
       [keyword |-> <<>>, checkbox |-> <<>>,
        subject |-> <<"K", "v", "a", "d", "r", "a", "t", "i">>,
        en |-> <<"S", "i", "z", "e">>, sq |-> <<>>],
       [keyword |-> <<>>, checkbox |-> <<>>,
        subject |-> <<"G", "a", "r", "a", "g", "e">>,
        en |-> <<"G", "a", "r", "a", "g", "e">>, sq |-> <<>>]>>,
     rows |-> <<
       <<<<"1", ".", "1">>, <<"6", "4">>, <<"2", "5">>>>,
       <<<<"A", "2">>, <<"3", "1", "0">>, <<"1", "8">>>>>>]

Layouts == {FullLayout, PriceLayout, TotalPriceLayout, NetPriceLayout, PlainLayout}

HeaderKinds == {"both", "upper", "noAnchor1", "noAnchor2"}

QuoteCell(cell) ==
    IF \E i \in 1..Len(cell) : cell[i] = ","
    THEN <<"\"">> \o cell \o <<"\"">>
    ELSE cell

RECURSIVE JoinCells(_)
JoinCells(cells) ==
    IF cells = <<>> THEN <<>>
    ELSE IF Len(cells) = 1 THEN QuoteCell(cells[1])
    ELSE QuoteCell(cells[1]) \o <<",">> \o JoinCells(Tail(cells))

Blanks(n) == [i \in 1..n |-> <<>>]

T ==
    [Anchor1Upper |-> <<"A", "N", "C", "H", "O", "R", "1", " ", "i", "d">>,
     Anchor2Upper |-> <<"A", "n", "c", "h", "o", "r", "2">>,
     Free |-> <<"F", "r", "e", "e">>,
     Reserved |-> <<"R", "e", "s", "e", "r", "v", "e", "d">>,
     Sold |-> <<"S", "o", "l", "d">>,
     title |-> <<"P", "a", "r", "k">>,
     doctypeLower |->
         <<"<", "!", "d", "o", "c", "t", "y", "p", "e", " ", "h", "t", "m", "l", ">">>,
     htmlLang |-> <<"<", "h", "t", "m", "l", " ", "l", "a", "n", "g", ">">>]

HeaderCells(kind, n) ==
    LET a1 == IF kind = "both" THEN K.anchor1
              ELSE IF kind = "upper" THEN T.Anchor1Upper
              ELSE IF kind = "noAnchor1" THEN T.title ELSE K.anchor1
        a2 == IF kind = "both" THEN K.anchor2
              ELSE IF kind = "upper" THEN T.Anchor2Upper
              ELSE IF kind = "noAnchor2" THEN T.title ELSE K.anchor2
    IN  <<a1>> \o Blanks(n) \o <<a2>> \o Blanks(2)

Column(layout, field) == [k \in 1..Len(layout.columns) |-> layout.columns[k][field]]

SheetLines(kind, layout, rows) ==
    LET n == Len(layout.columns)
        Meta(cells, code, text) == JoinCells(<<<<>>>> \o cells \o <<<<>>, code, text>>)
    IN  << JoinCells(HeaderCells(kind, n)),
           Meta(Blanks(n), K.one, T.Free),
           Meta(Column(layout, "sq"), K.two, T.Reserved),
           Meta(Column(layout, "en"), K.three, T.Sold),
           Meta(Blanks(n), <<>>, <<>>),
           Meta(Blanks(n), <<>>, <<>>),
           Meta(Blanks(n), <<>>, <<>>),
           Meta(Column(layout, "keyword"), <<>>, <<>>),
           Meta(Column(layout, "checkbox"), <<>>, <<>>),
           Meta(Column(layout, "subject"), <<>>, <<>>) >>
        \o [r \in 1..Len(rows) |-> Meta(rows[r], <<>>, <<>>)]

(* The data rows of a sheet: up to MaxRows rows of the layout, in the      *)
(* layout's order.                                                          *)
RowSeqs(layout) ==
    UNION {{[i \in 1..n |-> layout.rows[pick[i]]] :
               pick \in {p \in [1..n -> 1..Len(layout.rows)] :
                             \A i \in 1..n, j \in 1..n : i < j => p[i] < p[j]}} :
           n \in 0..MaxRows}

(* Sheets with both anchors in row 1, in either spelling. *)
SheetsOf(layouts) ==
    UNION {{SheetLines("both", layout, rows) : rows \in RowSeqs(layout)}
              \cup {SheetLines("upper", layout, <<layout.rows[1]>>)} :
           layout \in layouts}

AnchoredSheets == SheetsOf(Layouts)

(* Sheets whose row 1 lacks one of the anchors. *)
UnanchoredSheets ==
    {SheetLines(kind, layout, <<layout.rows[1]>>) :
        kind \in {"noAnchor1", "noAnchor2"}, layout \in {FullLayout, PriceLayout}}

(* A response body is the sequence of its lines (the text between the line  *)
(* feeds): the empty text is one empty line.                                *)
EmptyBodies == {<< <<>> >>, << <<" ">>, <<>>, <<"CR">> >>}


(* HTML pages: two that carry the markers the code looks for, and one with  *)
(* a lower-case doctype and an attribute on the html tag, which carries     *)
(* neither.                                                                 *)
HtmlBodies ==
    {<<K.doctype, K.html>>,
     <<K.html \o K.anchor1 \o <<",">> \o K.anchor2>>,
     <<T.doctypeLower, T.htmlLang>>}

Bodies == AnchoredSheets \cup UnanchoredSheets \cup EmptyBodies \cup HtmlBodies

(* The bodies the interleaved loads draw from: every kind of body, the      *)
(* sheets of one layout.                                                    *)
CoreBodies ==
    SheetsOf({PriceLayout}) \cup UnanchoredSheets \cup EmptyBodies \cup HtmlBodies

(* Math.random(), in hundredths: the values a call may return, and the      *)
(* streams of them one load may draw (one value per record).                *)
RandomValues == <<0, 99>>

RandomStream(seed) ==
    [i \in 1..SampleLimit |-> RandomValues[((seed + i) % Len(RandomValues)) + 1]]

RandomStreams == {RandomStream(seed) : seed \in 1..Len(RandomValues)}

(***************************************************************************)
(* loadData.  The manager is the record of the fields of                    *)
(* GoogleSheetsManager.  Of this.data (the parse result, which nothing      *)
(* reads) the manager keeps the anchors and the number of raw lines; its    *)
(* apartments, statusLegend and columnConfig are the very objects the       *)
(* manager's fields of those names hold.                                    *)
(*                                                                          *)
(* What a loadData call does once its awaits are over depends on the        *)
(* manager only in what it leaves alone, so it is computed as an effect     *)
(* (the values assigned, and the value returned) and applied by Apply.      *)
(***************************************************************************)
NoData == [anchor1Index |-> 0 - 1, anchor2Index |-> 0 - 1, rawLines |-> 0]

NewManager ==
    [data |-> NoData, apartments |-> <<>>, statusLegend |-> <<>>,
     columnConfig |-> <<>>, isLoaded |-> FALSE]

(* The catch block: loadSampleData() and return false; this.data is left. *)
Fallback(randoms) ==
    LET sample == loadSampleData(randoms)
    IN  [setsData |-> FALSE,
         data |-> NoData,
         apartments |-> sample.apartments,
         statusLegend |-> sample.statusLegend,
         columnConfig |-> sample.columnConfig,
         isLoaded |-> sample.isLoaded,
         result |-> "false"]

(* A variant of the success branch that publishes the extracted records    *)
(* without normalizing them; it is what C6 rules out.                       *)
Publish_unnormalized(parseResult, randoms) ==
    [setsData |-> TRUE,
     data |-> [anchor1Index |-> parseResult.anchor1Index,
               anchor2Index |-> parseResult.anchor2Index,
               rawLines |-> Len(parseResult.rawLines)],
     apartments |-> parseResult.apartments,
     statusLegend |-> parseResult.statusLegend,
     columnConfig |-> parseResult.columnConfig,
     isLoaded |-> TRUE,
     result |-> "true"]

(* The success branch: publish the parse result, normalize, return true. *)
Publish(parseResult, randoms) ==
    [setsData |-> TRUE,
     data |-> [anchor1Index |-> parseResult.anchor1Index,
               anchor2Index |-> parseResult.anchor2Index,
               rawLines |-> Len(parseResult.rawLines)],
     apartments |-> extractAndProcessApartmentData(parseResult.apartments, randoms),
     statusLegend |-> parseResult.statusLegend,
     columnConfig |-> parseResult.columnConfig,
     isLoaded |-> TRUE,
     result |-> "true"]

IsBlank(line) == trim(line) = <<>>

EmptyText(csvText) == \A i \in 1..Len(csvText) : IsBlank(csvText[i])

HtmlText(csvText) ==
    \E i \in 1..Len(csvText) :
        includes(csvText[i], K.doctype) \/ includes(csvText[i], K.html)

(* A variant of loadData that does not look for HTML in the body; it is    *)
(* what C4 rules out.                                                       *)
loadDataWithText_noHtmlCheck(csvText, randoms) ==
    IF EmptyText(csvText) THEN Fallback(randoms)
    ELSE LET lines == SelectSeq(csvText, LAMBDA line : ~IsBlank(line))
         IN  IF Len(lines) = 0 THEN Fallback(randoms)
             ELSE LET parseResult == parseAnchorSystem(lines)
                  IN  IF parseResult.success
                      THEN Publish(parseResult, randoms)
                      ELSE Fallback(randoms)

(* loadData from the point where response.text() has resolved to csvText. *)
loadDataWithText(csvText, randoms) ==
    IF EmptyText(csvText) \/ HtmlText(csvText) THEN Fallback(randoms)
    ELSE LET lines == SelectSeq(csvText, LAMBDA line : ~IsBlank(line))
         IN  IF Len(lines) = 0 THEN Fallback(randoms)
             ELSE LET parseResult == parseAnchorSystem(lines)
                  IN  IF parseResult.success
                      THEN Publish(parseResult, randoms)
                      ELSE Fallback(randoms)

(* loadData when fetch rejects (network error or abort) or the response is  *)
(* not ok, and when response.text() rejects: the throw lands in the catch.  *)
loadDataWithError(randoms) == Fallback(randoms)

Apply(m, effect) ==
    [data |-> IF effect.setsData THEN effect.data ELSE m.data,
     apartments |-> effect.apartments,
     statusLegend |-> effect.statusLegend,
     columnConfig |-> effect.columnConfig,
     isLoaded |-> effect.isLoaded]

BodyKind(body) ==
    IF body \in EmptyBodies THEN "emptyBody"
    ELSE IF body \in HtmlBodies THEN "htmlBody"
    ELSE IF body \in UnanchoredSheets THEN "noAnchors"
    ELSE "sheet"

(* Every way a call can end: by the kind of response it met, the effect. *)
ErrorEffects == {loadDataWithError(randoms) : randoms \in RandomStreams}

TextEffectsOf(bodies) ==
    {[kind |-> BodyKind(body), effect |-> loadDataWithText(body, randoms)] :
        body \in bodies, randoms \in RandomStreams}

TextEffects == TextEffectsOf(Bodies)

CoreTextEffects == TextEffectsOf(CoreBodies)

(***************************************************************************)
(* The query layer                                                          *)
(***************************************************************************)
Truthy(flag) == flag = "true"

matchesBedrooms(apartment, filters) ==
    IF Truthy(apartment.isOfficeSpace) THEN TRUE
    ELSE parseInt(apartment.bedrooms) \in filters.bedrooms

matchesFloor(apartment, filters) ==
    LET apartmentFloor == parseInt(apartment.floor)
    IN  /\ ~isNaN(apartmentFloor)
        /\ apartmentFloor >= filters.floors[1]
        /\ apartmentFloor <= filters.floors[2]

matchesArea(apartment, filters) ==
    LET apartmentArea == IF apartment.area = null THEN NaN ELSE apartment.area
    IN  /\ ~isNaN(apartmentArea)
        /\ apartmentArea >= filters.area[1]
        /\ apartmentArea <= filters.area[2]

(* A variant of the status condition that treats the empty set like the    *)
(* bedrooms condition does; it is what C2 rules out.                        *)
matchesStatus_emptyExcludes(apartment, filters) ==
    apartment.status \in filters.status

matchesStatus(apartment, filters) ==
    filters.status = {} \/ apartment.status \in filters.status

matches(apartment, filters) ==
    /\ matchesBedrooms(apartment, filters)
    /\ matchesFloor(apartment, filters)
    /\ matchesArea(apartment, filters)
    /\ matchesStatus(apartment, filters)

getFilteredApartments(apartments, filters) ==
    SelectSeq(apartments, LAMBDA apartment : matches(apartment, filters))

(* this.apartments.find(apt => apt.id === id): the first match, or none. *)
getApartmentById(apartments, id) ==
    LET hits == {i \in 1..Len(apartments) : apartments[i].id = id}
    IN  IF hits = {} THEN 0 ELSE CHOOSE i \in hits : \A j \in hits : i <= j

(***************************************************************************)
(* The state machine.  A loadData call runs to its first await (fetch),     *)
(* then to its second (response.text()), then to its end; the code between  *)
(* two awaits runs without interruption.  UI event handlers run between     *)
(* such steps, once the page is initialized.                                *)
(***************************************************************************)
MaxInFlight == 2

VARIABLES
    manager,    \* the fields of googleSheetsManager
    fetching,   \* the number of loadData calls awaiting fetch
    reading,    \* the number of loadData calls awaiting response.text()
    lastCall,   \* what the latest completed loadData call met and returned
    view        \* what the latest UI handler read from the manager

(* The other components of the page, the CRM application and the database. *)
VARIABLES
    filtersManager,           \* the fields of filtersManager, window.sliderInstances
                              \* and svgManager.currentView
    leadsFormManager,         \* the lead form: its fields' values, isSubmitting,
                              \* the message shown
    apartmentDetailsManager,  \* the details panel and its pending hide callbacks
    crmApp,                   \* the CRM application: leads, currentLead
    supabase                  \* the leads table and the requests not yet answered

pageVars ==
    <<filtersManager, leadsFormManager, apartmentDetailsManager, crmApp, supabase>>

loaderVars == <<manager, fetching, reading, lastCall, view>>

vars == <<manager, fetching, reading, lastCall, view, pageVars>>

(* new FiltersManager(); no slider exists yet. *)
NoSlider == [min |-> null, max |-> null, minValue |-> null, maxValue |-> null]

NewFiltersManager ==
    [currentFilters |->
         [bedrooms |-> {}, floors |-> <<Num(1), Num(24)>>,
          area |-> <<Num(30), Num(200)>>,
          status |-> {"available", "reserved", "sold"}],
     isInitialized |-> FALSE,
     clearAllState |-> "active",
     savedFilters |-> <<>>,
     allAvailableBedrooms |-> {},
     allAvailableFloors |-> <<Num(1), Num(24)>>,
     allAvailableAreas |-> <<Num(30), Num(200)>>,
     slidersCreated |-> FALSE,
     sliderInstances |-> [floor |-> NoSlider, area |-> NoSlider],
     currentView |-> 1,
     events |-> 0]

(* A text value that is null. *)
NullText == <<"null">>

EmptyFields ==
    [name |-> <<>>, email |-> <<>>, phone |-> <<>>, message |-> <<>>,
     apartment_id |-> <<>>]

NewLeadsFormManager ==
    [fields |-> EmptyFields, isSubmitting |-> FALSE, formMessage |-> "none"]

NewApartmentDetailsManager ==
    [isVisible |-> FALSE, currentApartment |-> NullText, display |-> "none",
     keyboardHandler |-> FALSE, timers |-> 0, events |-> 0]

NewCRMApp == [leads |-> <<>>, currentLead |-> 0]

LeadIds == {1, 2}

(* The words of the leads table's status and priority columns. *)
W ==
    [new |-> <<"n", "e", "w">>,
     contacted |-> <<"c", "o", "n", "t", "a", "c", "t", "e", "d">>,
     qualified |-> <<"q", "u", "a", "l", "i", "f", "i", "e", "d">>,
     medium |-> <<"m", "e", "d", "i", "u", "m">>,
     high |-> <<"h", "i", "g", "h">>]

NewSupabase ==
    [leads |-> [id \in LeadIds |-> [status |-> W.new, priority |-> W.medium]],
     inserts |-> <<>>, updates |-> <<>>]

PageInit ==
    /\ filtersManager = NewFiltersManager
    /\ leadsFormManager = NewLeadsFormManager
    /\ apartmentDetailsManager = NewApartmentDetailsManager
    /\ crmApp = NewCRMApp
    /\ supabase = NewSupabase

NoCall == [cause |-> "none", result |-> "none"]

NoView == [op |-> "none", filters |-> <<>>, resultCount |-> 0,
           id |-> <<>>, found |-> FALSE]

Init ==
    /\ manager = NewManager
    /\ fetching = 0
    /\ reading = 0
    /\ lastCall = NoCall
    /\ view = NoView
    /\ PageInit

(* loadData is called: it runs up to await fetch(...). *)
StartLoad ==
    /\ fetching + reading < MaxInFlight
    /\ fetching' = fetching + 1
    /\ UNCHANGED <<manager, reading, lastCall, view>>
    /\ UNCHANGED pageVars

Complete(effect, cause) ==
    /\ manager' = Apply(manager, effect)
    /\ lastCall' = [cause |-> cause, result |-> effect.result]

(* fetch rejects with a network error. *)
FetchRejects ==
    /\ fetching > 0
    /\ fetching' = fetching - 1
    /\ \E effect \in ErrorEffects : Complete(effect, "fetchRejected")
    /\ UNCHANGED <<reading, view>>
    /\ UNCHANGED pageVars

(* The 30 s timer fires while fetch is pending: controller.abort() makes    *)
(* fetch reject with an AbortError.                                         *)
FetchAborted ==
    /\ fetching > 0
    /\ fetching' = fetching - 1
    /\ \E effect \in ErrorEffects : Complete(effect, "fetchAborted")
    /\ UNCHANGED <<reading, view>>
    /\ UNCHANGED pageVars

(* fetch resolves with a response that is not ok. *)
FetchNotOk ==
    /\ fetching > 0
    /\ fetching' = fetching - 1
    /\ \E effect \in ErrorEffects : Complete(effect, "httpError")
    /\ UNCHANGED <<reading, view>>
    /\ UNCHANGED pageVars

(* fetch resolves with an ok response: the timer is cleared and the call    *)
(* awaits response.text().                                                  *)
FetchOk ==
    /\ fetching > 0
    /\ fetching' = fetching - 1
    /\ reading' = reading + 1
    /\ UNCHANGED <<manager, lastCall, view>>
    /\ UNCHANGED pageVars

(* response.text() rejects. *)
TextRejects ==
    /\ reading > 0
    /\ reading' = reading - 1
    /\ \E effect \in ErrorEffects : Complete(effect, "textRejected")
    /\ UNCHANGED <<fetching, view>>
    /\ UNCHANGED pageVars

(* response.text() resolves: the rest of loadData runs to its return. *)
TextResolves ==
    /\ reading > 0
    /\ reading' = reading - 1
    /\ \E e \in CoreTextEffects : Complete(e.effect, e.kind)
    /\ UNCHANGED <<fetching, view>>
    /\ UNCHANGED pageVars

(* The filters the UI may hold; numbers are in tenths like the records'. *)
QueryFilters ==
    {[bedrooms |-> {Num(2)}, floors |-> <<Num(1), Num(5)>>,
      area |-> <<Num(50), Num(100)>>, status |-> {"available"}],
     [bedrooms |-> {}, floors |-> <<Num(0), Num(24)>>,
      area |-> <<Num(30), Num(200)>>, status |-> {}],
     [bedrooms |-> {Num(2), Num(3)}, floors |-> <<Num(1), Num(24)>>,
      area |-> <<Num(30), Num(200)>>, status |-> {"available", "reserved", "sold"}]}

(* FiltersManager.applyFilters: nothing before the data is loaded, else the *)
(* filtered set is taken and handed to the overlay.                         *)
ApplyFilters ==
    /\ manager.isLoaded
    /\ \E filters \in QueryFilters :
           view' = [NoView EXCEPT
                       !.op = "filter",
                       !.filters = filters,
                       !.resultCount =
                           Len(getFilteredApartments(manager.apartments, filters))]
    /\ UNCHANGED <<manager, fetching, reading, lastCall>>
    /\ UNCHANGED pageVars

ShapeIds == {<<"1", ".", "1">>, <<"CY_D", "CY_P", "3">>}

(* A click or hover on an overlay shape: the handlers exist once the page   *)
(* is initialized, which follows the first loadData.                        *)
ShapeEvent ==
    /\ manager.isLoaded
    /\ \E id \in ShapeIds :
           LET at == getApartmentById(manager.apartments, id)
           IN  view' = [NoView EXCEPT
                           !.op = "byId",
                           !.id = id,
                           !.found = (at # 0)]
    /\ UNCHANGED <<manager, fetching, reading, lastCall>>
    /\ UNCHANGED pageVars

Next ==
    \/ StartLoad
    \/ FetchRejects
    \/ FetchAborted
    \/ FetchNotOk
    \/ FetchOk
    \/ TextRejects
    \/ TextResolves
    \/ ApplyFilters
    \/ ShapeEvent

Spec == Init /\ [][Next]_vars

(***************************************************************************)
(* The page's own use of the loader: initialization awaits loadData before  *)
(* it sets up the filters and the overlay handlers, so the call runs from   *)
(* its start to its return with no handler in between; a reload does the    *)
(* same.  Here the response may be any body of Bodies.                      *)
(***************************************************************************)
LoadFromText ==
    /\ fetching = 0 /\ reading = 0
    /\ \E e \in TextEffects : Complete(e.effect, e.kind)
    /\ UNCHANGED <<fetching, reading, view>>
    /\ UNCHANGED pageVars

LoadFromError ==
    /\ fetching = 0 /\ reading = 0
    /\ \E effect \in ErrorEffects : Complete(effect, "fetchRejected")
    /\ UNCHANGED <<fetching, reading, view>>
    /\ UNCHANGED pageVars

NextPipeline ==
    \/ LoadFromText
    \/ LoadFromError
    \/ ApplyFilters
    \/ ShapeEvent

SpecPipeline == Init /\ [][NextPipeline]_vars

(***************************************************************************)
(* The functions of the loader on their own: each action below applies one  *)
(* of them to an input drawn from a bounded set and leaves the input and    *)
(* the result in view.                                                      *)
(***************************************************************************)
(* The texts a status cell may hold: the tokens of the table, unknown       *)
(* tokens, the empty text, names every object inherits; in either case,     *)
(* with and without blanks around them.                                     *)
StatusTokens ==
    {K.one, K.two, K.three, K.available, K.reserved, K.sold, K.free,
     K.sloboden, K.rezerviran, K.prodaden, <<>>, <<"x">>, <<"4">>,
     <<"s", "o", "l", "d", " ", "o", "u", "t">>,
     inheritedProperties[1][1], inheritedProperties[2][1]}

StatusTexts ==
    {lead \o text \o trail :
        lead \in {<<>>, <<" ">>}, trail \in {<<>>, <<" ">>},
        text \in StatusTokens \cup {toUpperCase(token) : token \in StatusTokens}}

(* mapStatusValue(value) *)
MapStatus ==
    /\ view = NoView
    /\ \E value \in StatusTexts :
           view' = [op |-> "mapStatus", input |-> value,
                    output |-> mapStatusValue(value)]
    /\ UNCHANGED <<manager, fetching, reading, lastCall>>
    /\ UNCHANGED pageVars

(* The columns a sheet may have between the anchors, after the id column:   *)
(* filter keyword (row 8), subject (row 10) and the cell of the data row.   *)
ColumnPool ==
    {[keyword |-> K.bedrooms, subject |-> K.spalni, value |-> <<"1">>],
     [keyword |-> K.bedrooms, subject |-> K.spalni, value |-> <<"1", "2", "0">>],
     [keyword |-> K.bedrooms, subject |-> <<"2">>, value |-> <<"1", "0">>],
     [keyword |-> K.bedroom, subject |-> <<"B", "R">>, value |-> <<"0">>],
     [keyword |-> K.floor, subject |-> K.sprat, value |-> <<"2", "5">>],
     [keyword |-> K.area, subject |-> K.vkupno \o <<" ", "m", "2">>,
      value |-> <<"7", "0">>],
     [keyword |-> <<>>, subject |-> <<"N", "e", "t">>, value |-> <<"6", "4">>],
     [keyword |-> <<>>, subject |-> <<"K", "v", "a", "d", "r", "a", "t", "i">>,
      value |-> <<"2", "0">>],
     [keyword |-> K.price, subject |-> K.cena, value |-> <<"3", "0", "0">>],
     [keyword |-> K.status, subject |-> <<"S", "t", "a", "t", "u", "s">>,
      value |-> inheritedProperties[1][1]],
     [keyword |-> <<>>, subject |-> <<>>, value |-> <<>>]}

MaxColumns == 2

ColumnSeqs == UNION {[1..n -> ColumnPool] : n \in 0..MaxColumns}

(* The id of the record, its 0-based position in the sheet and what         *)
(* Math.random() returns while it is normalized.                            *)
RecordCases ==
    {[id |-> <<"1", ".", "1">>, index |-> 0, random |-> 0],
     [id |-> K.officePrefix \o <<"3">>, index |-> 3, random |-> 99],
     [id |-> <<"A">>, index |-> 4, random |-> 99]}

(* The column configuration of a sheet with anchor1 in column B, the id     *)
(* column next to it and the given columns after that.                      *)
ConfigOf(columns) ==
    LET Config(i, keyword, subject) ==
            [columnIndex |-> i,
             filterKeyword |-> keyword,
             isVisible |-> TRUE,
             subject |-> subject,
             subjects |-> [mk |-> subject, en |-> <<>>, sq |-> <<>>],
             columnLetter |-> 65 + i]
    IN  <<Config(2, <<"i", "d">>, <<"I", "D">>)>>
        \o [k \in 1..Len(columns) |->
                Config(2 + k, columns[k].keyword, columns[k].subject)]

(* The record parseAnchorSystem extracts from the data row of such a sheet. *)
RawRecord(id, columns) ==
    NewApartment(<<<<>>, <<>>, id>> \o [k \in 1..Len(columns) |-> columns[k].value],
                 10, 1, ConfigOf(columns))

(* The forEach body of extractAndProcessApartmentData on one record. *)
NormalizeRecord ==
    /\ view = NoView
    /\ \E case \in RecordCases, columns \in ColumnSeqs :
           LET apartment == RawRecord(case.id, columns)
           IN  view' = [op |-> "normalize",
                        columns |-> columns,
                        index |-> case.index,
                        input |-> apartment,
                        output |-> ProcessApartment(apartment, case.index,
                                                    case.random)]
    /\ UNCHANGED <<manager, fetching, reading, lastCall>>
    /\ UNCHANGED pageVars

(* loadData run twice on one response body: the records each run leaves,    *)
(* for what Math.random() returns in the one and in the other.              *)
LoadTwice ==
    /\ view = NoView
    /\ \E csvText \in AnchoredSheets, first \in RandomStreams,
          second \in RandomStreams :
           view' = [op |-> "loadTwice",
                    first |-> loadDataWithText(csvText, first).apartments,
                    second |-> loadDataWithText(csvText, second).apartments]
    /\ UNCHANGED <<manager, fetching, reading, lastCall>>
    /\ UNCHANGED pageVars

(* loadSampleData run twice. *)
SampleTwice ==
    /\ view = NoView
    /\ \E first \in RandomStreams, second \in RandomStreams :
           view' = [op |-> "sampleTwice",
                    first |-> loadSampleData(first).apartments,
                    second |-> loadSampleData(second).apartments]
    /\ UNCHANGED <<manager, fetching, reading, lastCall>>
    /\ UNCHANGED pageVars

(* A layout with rows whose id cell is empty or blank, and with two columns *)
(* that share their subject and differ in keyword, checkbox and cells.      *)
GapLayout ==
    [columns |-> <<
       [keyword |-> <<"i", "d">>, checkbox |-> <<"CHK">>,
        subject |-> <<"CY_S", "cy_t", "cy_a", "cy_n">>,
        en |-> <<"U", "n", "i", "t">>, sq |-> <<>>],
       [keyword |-> K.area, checkbox |-> <<"CHK">>,
        subject |-> <<"S", "i", "z", "e">>,
        en |-> <<"G", "r", "o", "s", "s">>, sq |-> <<>>],
       [keyword |-> <<>>, checkbox |-> <<>>,
        subject |-> <<"S", "i", "z", "e">>,
        en |-> <<"N", "e", "t">>, sq |-> <<>>]>>,
     rows |-> <<
       <<<<"1", ".", "1">>, <<"7", "0">>, <<"6", "4">>>>,
       <<<<>>, <<"8", "0">>, <<>>>>,
       <<<<" ">>, <<"9", "0">>, <<"9", "1">>>>,
       <<<<"2", ".", "1">>, <<>>, <<"5", "5">>>>,
       <<<<>>, <<>>, <<>>>>>>]

ParseLayouts == Layouts \cup {GapLayout}

(* parseAnchorSystem on the non-blank lines of a sheet, as loadData calls   *)
(* it; the text may end with a line feed.                                   *)
ParseSheet ==
    /\ view = NoView
    /\ \E layout \in ParseLayouts, kind \in {"both", "upper"},
          end \in {<<>>, << <<>> >>} :
           \E rows \in RowSeqs(layout) :
               LET csvText == SheetLines(kind, layout, rows) \o end
                   lines == SelectSeq(csvText, LAMBDA line : ~IsBlank(line))
               IN  view' = [op |-> "parse",
                            columns |-> layout.columns,
                            rows |-> rows,
                            result |-> parseAnchorSystem(lines)]
    /\ UNCHANGED <<manager, fetching, reading, lastCall>>
    /\ UNCHANGED pageVars

(* The texts a checkbox cell (row 9) may hold. *)
CheckboxCells ==
    {K.checked, K.one, K.true, <<"T", "R", "U", "E">>, <<"T", "r", "u", "e">>,
     <<>>, <<"0">>, <<"1", "1">>, <<"x">>, <<"F", "A", "L", "S", "E">>,
     <<"y", "e", "s">>, <<"u", "n", "t", "r", "u", "e">>,
     <<"N", "O", "T", " ", "T", "R", "U", "E">>}

(* The schema entry parseAnchorSystem builds for a column with that         *)
(* checkbox cell.                                                           *)
CheckColumn ==
    /\ view = NoView
    /\ \E checkbox \in CheckboxCells :
           LET layout == [columns |-> <<[FullLayout.columns[1]
                                            EXCEPT !.checkbox = checkbox]>>,
                          rows |-> <<>>]
               lines == SheetLines("both", layout, <<>>)
           IN  view' = [op |-> "checkbox", input |-> checkbox,
                        output |-> ColumnConfigAt(lines, 1).isVisible]
    /\ UNCHANGED <<manager, fetching, reading, lastCall>>
    /\ UNCHANGED pageVars

(* The lines of up to MaxLineLen characters over a letter, the comma, the   *)
(* double quote and the blank; quotes need not be balanced.                 *)
MaxLineLen == 4

LineChars == {"a", ",", "\"", " "}

CsvLines == UNION {[1..n -> LineChars] : n \in 0..MaxLineLen}

(* parseCSVLine(line) *)
ParseLine ==
    /\ view = NoView
    /\ \E line \in CsvLines :
           view' = [op |-> "csv", input |-> line, output |-> parseCSVLine(line)]
    /\ UNCHANGED <<manager, fetching, reading, lastCall>>
    /\ UNCHANGED pageVars

NextFunctions ==
    \/ MapStatus
    \/ NormalizeRecord
    \/ ParseSheet
    \/ CheckColumn
    \/ ParseLine
    \/ LoadTwice
    \/ SampleTwice

SpecFunctions == Init /\ [][NextFunctions]_vars

(***************************************************************************)
(* FiltersManager.  Numbers are in tenths, like the records'.  The page     *)
(* initializes the filters once loadData has returned; after that the       *)
(* handlers of the clear button, the bedroom buttons, the slider handles    *)
(* and tracks and the view switch run, up to MaxEvents of them.             *)
(***************************************************************************)
MaxEvents == 2

(* The ids of the shapes of the two overlays ([data-name] elements). *)
ViewShapes ==
    << {<<"1", ".", "1">>, <<"2", ".", "1">>, <<"2", ".", "2">>,
        K.officePrefix \o <<"3">>, <<"A", "2">>},
       {<<"2", ".", "2">>, <<"A", "2">>} >>

getVisibleApartmentsForCurrentView(fm, apartments) ==
    SelectSeq(apartments,
              LAMBDA apt : apt.id \in ViewShapes[fm.currentView])

initializeBedroomFilters(fm, apartments) ==
    LET visibleApartments == getVisibleApartmentsForCurrentView(fm, apartments)
        bedroomCounts ==
            {parseInt(visibleApartments[i].bedrooms) :
                i \in {j \in 1..Len(visibleApartments) :
                          /\ ~isNaN(parseInt(visibleApartments[j].bedrooms))
                          /\ parseInt(visibleApartments[j].bedrooms) > 0
                          /\ ~Truthy(visibleApartments[j].isOfficeSpace)}}
    IN  IF Len(visibleApartments) = 0 THEN fm
        ELSE [fm EXCEPT !.allAvailableBedrooms = bedroomCounts,
                        !.currentFilters.bedrooms = bedroomCounts]

SetMin(numbers) == CHOOSE n \in numbers : \A k \in numbers : n <= k

SetMax(numbers) == CHOOSE n \in numbers : \A k \in numbers : n >= k

(* Math.floor(x) and Math.ceil(x) for a number x >= 0 in tenths. *)
MathFloor(x) == (x \div Scale) * Scale

MathCeil(x) == ((x + Scale - 1) \div Scale) * Scale

(* createSlider(type, min, max, min, max): the slider's data. *)
createSlider(min, max) ==
    [min |-> min, max |-> max, minValue |-> min, maxValue |-> max]

resetSlider(fm, type) ==
    LET values == IF type = "floor" THEN fm.allAvailableFloors
                  ELSE fm.allAvailableAreas
        slid == [fm EXCEPT !.sliderInstances[type].minValue = values[1],
                           !.sliderInstances[type].maxValue = values[2]]
    IN  IF type = "floor" THEN [slid EXCEPT !.currentFilters.floors = values]
        ELSE [slid EXCEPT !.currentFilters.area = values]

updateExistingSliders(fm) ==
    resetSlider(resetSlider([fm EXCEPT
                                !.currentFilters.floors = fm.allAvailableFloors,
                                !.currentFilters.area = fm.allAvailableAreas],
                            "floor"),
                "area")

initializeSliders(fm, apartments) ==
    LET validFloors ==
            {parseInt(apartments[i].floor) :
                i \in {j \in 1..Len(apartments) :
                          /\ ~isNaN(parseInt(apartments[j].floor))
                          /\ parseInt(apartments[j].floor) >= 0}}
        validAreas ==
            {apartments[i].area :
                i \in {j \in 1..Len(apartments) :
                          /\ apartments[j].area # null
                          /\ apartments[j].area > Num(10)}}
        minArea == Max(MathFloor(SetMin(validAreas) - Num(10)), Num(10))
        maxArea == MathCeil(SetMax(validAreas) + Num(10))
        floors == IF validFloors # {}
                  THEN <<SetMin(validFloors), SetMax(validFloors)>>
                  ELSE <<Num(1), Num(24)>>
        areas == IF validAreas # {} THEN <<minArea, maxArea>>
                 ELSE <<Num(30), Num(200)>>
    IN  IF fm.slidersCreated THEN updateExistingSliders(fm)
        ELSE IF Len(apartments) = 0
        THEN [fm EXCEPT
                 !.sliderInstances =
                     [floor |-> createSlider(Num(1), Num(24)),
                      area |-> createSlider(Num(30), Num(200))],
                 !.slidersCreated = TRUE]
        ELSE [fm EXCEPT
                 !.allAvailableFloors =
                     IF validFloors # {} THEN floors ELSE @,
                 !.currentFilters.floors =
                     IF validFloors # {} THEN floors ELSE @,
                 !.allAvailableAreas = areas,
                 !.currentFilters.area = areas,
                 !.sliderInstances =
                     [floor |-> createSlider(floors[1], floors[2]),
                      area |-> createSlider(areas[1], areas[2])],
                 !.slidersCreated = TRUE]

(* initialize(), called when the data is loaded: the bedroom buttons, the   *)
(* sliders, updateFiltersFromData() and the clear button's state.           *)
initialize(fm, apartments) ==
    LET built == initializeSliders(initializeBedroomFilters(fm, apartments),
                                   apartments)
        updated == initializeSliders(initializeBedroomFilters(built, apartments),
                                     apartments)
    IN  IF fm.isInitialized THEN fm
        ELSE [updated EXCEPT !.clearAllState = "active", !.isInitialized = TRUE]

updateFiltersForView(fm, apartments) ==
    LET buttons == initializeBedroomFilters(fm, apartments)
    IN  IF buttons.slidersCreated THEN updateExistingSliders(buttons)
        ELSE initializeSliders(buttons, apartments)

toggleBedroomFilter(fm, count) ==
    [fm EXCEPT !.currentFilters.bedrooms =
                   IF count \in @ THEN @ \ {count} ELSE @ \cup {count}]

(* A variant of clearAllFilters whose cleared ranges start at 0; it is what *)
(* C23 rules out.                                                           *)
clearAllFilters_fromZero(fm) ==
    IF fm.clearAllState = "active"
    THEN [fm EXCEPT
             !.savedFilters = fm.currentFilters,
             !.currentFilters =
                 [bedrooms |-> {}, floors |-> <<0, Num(999)>>,
                  area |-> <<0, Num(999)>>, status |-> {}],
             !.clearAllState = "inactive"]
    ELSE [resetSlider(resetSlider(fm, "floor"), "area") EXCEPT
             !.currentFilters =
                 [bedrooms |-> fm.allAvailableBedrooms,
                  floors |-> fm.allAvailableFloors,
                  area |-> fm.allAvailableAreas,
                  status |-> {"available", "reserved", "sold"}],
             !.clearAllState = "active"]

clearAllFilters(fm) ==
    IF fm.clearAllState = "active"
    THEN [fm EXCEPT
             !.savedFilters = fm.currentFilters,
             !.currentFilters =
                 [bedrooms |-> {}, floors |-> <<Num(999), Num(999)>>,
                  area |-> <<Num(999), Num(999)>>, status |-> {}],
             !.clearAllState = "inactive"]
    ELSE [resetSlider(resetSlider(fm, "floor"), "area") EXCEPT
             !.currentFilters =
                 [bedrooms |-> fm.allAvailableBedrooms,
                  floors |-> fm.allAvailableFloors,
                  area |-> fm.allAvailableAreas,
                  status |-> {"available", "reserved", "sold"}],
             !.clearAllState = "active"]

updateFiltersFromSlider(fm, type) ==
    LET range == <<fm.sliderInstances[type].minValue,
                   fm.sliderInstances[type].maxValue>>
    IN  IF type = "floor" THEN [fm EXCEPT !.currentFilters.floors = range]
        ELSE [fm EXCEPT !.currentFilters.area = range]

(* The pointer's place on the track, in percent of its width. *)
Percents == {0, 50, 100}

(* handleMovement(clientX) while the given handle is held. *)
handleMovement(fm, type, handle, percent) ==
    LET sliderData == fm.sliderInstances[type]
        newPercent == Max(0, Min(100, percent))
        newValue ==
            MathRound(sliderData.min
                      + (newPercent * (sliderData.max - sliderData.min)) \div 100)
        moved ==
            IF handle = "min"
            THEN [sliderData EXCEPT
                     !.minValue = IF newValue <= sliderData.maxValue - Num(1)
                                  THEN newValue
                                  ELSE sliderData.maxValue - Num(1)]
            ELSE [sliderData EXCEPT
                     !.maxValue = IF newValue >= sliderData.minValue + Num(1)
                                  THEN newValue
                                  ELSE sliderData.minValue + Num(1)]
    IN  updateFiltersFromSlider([fm EXCEPT !.sliderInstances[type] = moved], type)

Abs(x) == IF x < 0 THEN 0 - x ELSE x

(* handleTrackClick(clientX) while no handle is held. *)
handleTrackClick(fm, type, percent) ==
    LET sliderData == fm.sliderInstances[type]
        clickValue ==
            sliderData.min + (percent * (sliderData.max - sliderData.min)) \div 100
        distToMin == Abs(clickValue - sliderData.minValue)
        distToMax == Abs(clickValue - sliderData.maxValue)
        moved ==
            IF distToMin < distToMax
            THEN [sliderData EXCEPT
                     !.minValue = Max(sliderData.min,
                                      Min(MathRound(clickValue),
                                          sliderData.maxValue - Num(1)))]
            ELSE [sliderData EXCEPT
                     !.maxValue = Max(sliderData.minValue + Num(1),
                                      Min(MathRound(clickValue), sliderData.max))]
    IN  updateFiltersFromSlider([fm EXCEPT !.sliderInstances[type] = moved], type)

(* The page's initialization: loadData returns, then the filters are        *)
(* initialized from the records it left.                                    *)
InitializePage ==
    /\ ~filtersManager.isInitialized
    /\ \E e \in CoreTextEffects \cup
                   {[kind |-> "fetchRejected", effect |-> effect] :
                       effect \in ErrorEffects} :
           /\ Complete(e.effect, e.kind)
           /\ filtersManager' =
                  initialize(filtersManager, Apply(manager, e.effect).apartments)
    /\ UNCHANGED <<fetching, reading, view, leadsFormManager,
                   apartmentDetailsManager, crmApp, supabase>>

Handled(fm) == [fm EXCEPT !.events = @ + 1]

(* A click on the clear / restore button. *)
ClearAllFilters ==
    /\ filtersManager.isInitialized
    /\ filtersManager.events < MaxEvents
    /\ filtersManager' = Handled(clearAllFilters(filtersManager))
    /\ UNCHANGED <<loaderVars, leadsFormManager, apartmentDetailsManager, crmApp,
                   supabase>>

(* A click on a bedroom button. *)
ToggleBedroomFilter ==
    /\ filtersManager.isInitialized
    /\ filtersManager.events < MaxEvents
    /\ \E count \in filtersManager.allAvailableBedrooms :
           filtersManager' = Handled(toggleBedroomFilter(filtersManager, count))
    /\ UNCHANGED <<loaderVars, leadsFormManager, apartmentDetailsManager, crmApp,
                   supabase>>

(* A slider handle is pressed, moved and released. *)
DragHandle ==
    /\ filtersManager.isInitialized
    /\ filtersManager.events < MaxEvents
    /\ \E type \in {"floor", "area"}, handle \in {"min", "max"},
          percent \in Percents :
           filtersManager' =
               Handled(handleMovement(filtersManager, type, handle, percent))
    /\ UNCHANGED <<loaderVars, leadsFormManager, apartmentDetailsManager, crmApp,
                   supabase>>

(* A click on a slider's track. *)
TrackClick ==
    /\ filtersManager.isInitialized
    /\ filtersManager.events < MaxEvents
    /\ \E type \in {"floor", "area"}, percent \in Percents :
           filtersManager' =
               Handled(handleTrackClick(filtersManager, type, percent))
    /\ UNCHANGED <<loaderVars, leadsFormManager, apartmentDetailsManager, crmApp,
                   supabase>>

(***************************************************************************)
(* ApartmentDetailsManager.  currentApartment is the record's id;           *)
(* keyboardHandler tells whether the Escape listener is installed; timers   *)
(* counts the setTimeout callbacks of hideDetails that have not run yet.    *)
(***************************************************************************)
MaxPanelEvents == 4

(* The records a click on a shape can show. *)
DetailApartments == {<<"1", ".", "1">>, <<"2", ".", "2">>}

showDetails(panel, apartment) ==
    IF apartment = NullText THEN panel
    ELSE [panel EXCEPT !.currentApartment = apartment,
                       !.display = "block",
                       !.isVisible = TRUE,
                       !.keyboardHandler = TRUE]

hideDetails(panel) ==
    IF panel.isVisible
    THEN [panel EXCEPT !.timers = @ + 1, !.keyboardHandler = FALSE]
    ELSE panel

(* The callback hideDetails hands to setTimeout, animationDuration later. *)
hideDetailsTimeout(panel) ==
    [panel EXCEPT !.timers = @ - 1,
                  !.display = "none",
                  !.isVisible = FALSE,
                  !.currentApartment = NullText]

(* A click on a shape: showDetails with the shape's record, or with none. *)
ShowDetails ==
    /\ apartmentDetailsManager.events < MaxPanelEvents
    /\ \E apartment \in DetailApartments \cup {NullText} :
           apartmentDetailsManager' =
               [showDetails(apartmentDetailsManager, apartment) EXCEPT
                   !.events = @ + 1]
    /\ UNCHANGED <<loaderVars, filtersManager, leadsFormManager, crmApp, supabase>>

(* The close button, the Escape key or a click on empty space. *)
HideDetails ==
    /\ apartmentDetailsManager.events < MaxPanelEvents
    /\ apartmentDetailsManager' =
           [hideDetails(apartmentDetailsManager) EXCEPT !.events = @ + 1]
    /\ UNCHANGED <<loaderVars, filtersManager, leadsFormManager, crmApp, supabase>>

(* A timeout set by hideDetails expires. *)
HideDetailsTimeout ==
    /\ apartmentDetailsManager.timers > 0
    /\ apartmentDetailsManager' = hideDetailsTimeout(apartmentDetailsManager)
    /\ UNCHANGED <<loaderVars, filtersManager, leadsFormManager, crmApp, supabase>>

(* svgManager.switchView(): the other view becomes current, the filters are *)
(* updated for it and the details panel is closed.                          *)
SwitchView ==
    /\ filtersManager.events < MaxEvents
    /\ filtersManager' =
           LET switched == [filtersManager EXCEPT !.currentView = 3 - @]
           IN  Handled(IF filtersManager.isInitialized
                       THEN updateFiltersForView(switched, manager.apartments)
                       ELSE switched)
    /\ apartmentDetailsManager' = hideDetails(apartmentDetailsManager)
    /\ UNCHANGED <<loaderVars, leadsFormManager, crmApp, supabase>>

NextFilters ==
    \/ InitializePage
    \/ ClearAllFilters
    \/ ToggleBedroomFilter
    \/ DragHandle
    \/ TrackClick
    \/ SwitchView

SpecFilters == Init /\ [][NextFilters]_vars

NextDetails ==
    \/ ShowDetails
    \/ HideDetails
    \/ HideDetailsTimeout
    \/ SwitchView

SpecDetails == Init /\ [][NextDetails]_vars

(***************************************************************************)
(* LeadsFormManager and the leads table.  supabase.inserts holds the rows   *)
(* of the insert requests that have not been answered yet.                  *)
(***************************************************************************)
MaxPending == 2

(* What the visitor can have typed into the form. *)
FormInputs ==
    [name : {<<>>, <<"A">>},
     email : {<<>>, <<"a", "@", "b", ".", "c">>, <<" ", "a", "@", "b">>},
     phone : {<<>>, <<"+", "1", "2", "3", " ", "4", "5", "6", "7">>,
              <<"1", "2", "3">>},
     message : {<<>>, <<"m", " ">>},
     apartment_id : {<<>>, <<"1", ".", "1">>}]

(* leads_status_check: the values the status column accepts. *)
leads_status_check ==
    {W.new, W.contacted, W.qualified,
     <<"p", "r", "o", "p", "o", "s", "a", "l">>,
     <<"n", "e", "g", "o", "t", "i", "a", "t", "i", "o", "n">>,
     <<"c", "l", "o", "s", "e", "d", "_", "w", "o", "n">>,
     <<"c", "l", "o", "s", "e", "d", "_", "l", "o", "s", "t">>,
     <<"f", "o", "l", "l", "o", "w", "_", "u", "p">>}

collectFormData(fields) ==
    [name |-> trim(fields.name),
     email |-> trim(fields.email),
     phone |-> IF trim(fields.phone) = <<>> THEN NullText ELSE trim(fields.phone),
     message |-> trim(fields.message),
     apartment_id |-> IF trim(fields.apartment_id) = <<>> THEN NullText
                      ELSE trim(fields.apartment_id),
     status |-> <<"N", "e", "w">>]

(* /^[^\s@]+@[^\s@]+\.[^\s@]+$/ *)
emailRegex(s) ==
    \E i \in 2..Len(s) :
        /\ s[i] = "@"
        /\ \A k \in (1..Len(s)) \ {i} : s[k] \notin WhiteSpace \cup {"@"}
        /\ \E j \in (i + 2)..(Len(s) - 1) : s[j] = "."

(* /^[\+]?[0-9\s\-\(\)]{8,}$/ *)
phoneRegex(s) ==
    LET body == IF s # <<>> /\ Head(s) = "+" THEN Tail(s) ELSE s
    IN  /\ Len(body) >= 8
        /\ \A k \in 1..Len(body) :
               IsDigit(body[k]) \/ body[k] \in WhiteSpace \cup {"-", "(", ")"}

validateFormData(formData) ==
    /\ formData.name # <<>>
    /\ formData.email # <<>>
    /\ formData.message # <<>>
    /\ emailRegex(formData.email)
    /\ formData.phone # NullText => phoneRegex(formData.phone)

(* A variant of handleFormSubmission without the isSubmitting test; it is   *)
(* what C25 rules out.                                                      *)
handleFormSubmission_noGuard(form, db, client) ==
    LET formData == collectFormData(form.fields)
    IN  IF ~client
        THEN [form |-> [form EXCEPT !.formMessage = "unavailable",
                                    !.isSubmitting = FALSE],
              db |-> db]
        ELSE IF ~validateFormData(formData)
        THEN [form |-> [form EXCEPT !.formMessage = "invalid",
                                    !.isSubmitting = FALSE],
              db |-> db]
        ELSE [form |-> [form EXCEPT !.formMessage = "none",
                                    !.isSubmitting = TRUE],
              db |-> [db EXCEPT !.inserts = Append(@, formData)]]

(* handleFormSubmission up to its await: the form and the database after   *)
(* it; client tells whether window.supabase is there.                       *)
handleFormSubmission(form, db, client) ==
    LET formData == collectFormData(form.fields)
    IN  IF form.isSubmitting THEN [form |-> form, db |-> db]
        ELSE IF ~client
        THEN [form |-> [form EXCEPT !.formMessage = "unavailable",
                                    !.isSubmitting = FALSE],
              db |-> db]
        ELSE IF ~validateFormData(formData)
        THEN [form |-> [form EXCEPT !.formMessage = "invalid",
                                    !.isSubmitting = FALSE],
              db |-> db]
        ELSE [form |-> [form EXCEPT !.formMessage = "none",
                                    !.isSubmitting = TRUE],
              db |-> [db EXCEPT !.inserts = Append(@, formData)]]

(* What the insert of a row can answer: an error, a rejected promise and,   *)
(* for a row the table's constraints accept, success.                       *)
InsertOutcomes(row) ==
    {"error", "rejected"}
        \cup (IF row.status \in leads_status_check THEN {"ok"} ELSE {})

(* A variant of the code after the await whose finally block is missing; it *)
(* is what C26 rules out.                                                   *)
insertSettled_noFinally(form, outcome) ==
    IF outcome = "ok"
    THEN [form EXCEPT !.formMessage = "success", !.fields = EmptyFields,
                      !.isSubmitting = FALSE]
    ELSE [form EXCEPT !.formMessage = IF outcome = "error" THEN "insertError"
                                      ELSE "unexpected"]

(* handleFormSubmission after its await: the branches on the answer, the    *)
(* catch block and the finally block.                                       *)
insertSettled(form, outcome) ==
    IF outcome = "ok"
    THEN [form EXCEPT !.formMessage = "success", !.fields = EmptyFields,
                      !.isSubmitting = FALSE]
    ELSE [form EXCEPT !.formMessage = IF outcome = "error" THEN "insertError"
                                      ELSE "unexpected",
                      !.isSubmitting = FALSE]

(* The leads table with the row added under a new id; priority takes the   *)
(* column's default.                                                        *)
InsertRow(leads, row) ==
    [id \in DOMAIN leads \cup {Cardinality(DOMAIN leads) + 1} |->
        IF id \in DOMAIN leads THEN leads[id]
        ELSE [status |-> row.status, priority |-> W.medium]]

RemoveAt(s, k) == SubSeq(s, 1, k - 1) \o SubSeq(s, k + 1, Len(s))

(* The visitor edits the form. *)
FillForm ==
    /\ \E input \in FormInputs :
           leadsFormManager' = [leadsFormManager EXCEPT !.fields = input]
    /\ UNCHANGED <<loaderVars, filtersManager, apartmentDetailsManager, crmApp,
                   supabase>>

(* A submit event of the form. *)
SubmitForm ==
    /\ Len(supabase.inserts) < MaxPending
    /\ \E client \in BOOLEAN :
           LET after == handleFormSubmission(leadsFormManager, supabase, client)
           IN  /\ leadsFormManager' = after.form
               /\ supabase' = after.db
    /\ UNCHANGED <<loaderVars, filtersManager, apartmentDetailsManager, crmApp>>

(* An insert request is answered. *)
InsertSettles ==
    /\ \E k \in 1..Len(supabase.inserts) :
           \E outcome \in InsertOutcomes(supabase.inserts[k]) :
               /\ leadsFormManager' = insertSettled(leadsFormManager, outcome)
               /\ supabase' =
                      [supabase EXCEPT
                          !.inserts = RemoveAt(@, k),
                          !.leads = IF outcome = "ok"
                                    THEN InsertRow(@, supabase.inserts[k])
                                    ELSE @]
    /\ UNCHANGED <<loaderVars, filtersManager, apartmentDetailsManager, crmApp>>

NextLeads ==
    \/ FillForm
    \/ SubmitForm
    \/ InsertSettles

SpecLeads == Init /\ [][NextLeads]_vars

(* The insert request is answered eventually. *)
SpecLeadsLive == SpecLeads /\ WF_vars(InsertSettles)

(***************************************************************************)
(* CRMApp.  leads holds the local copies of the rows, by id; currentLead is *)
(* the id of the lead in the detail modal, 0 for null; supabase.updates     *)
(* holds the update requests that have not been answered yet.               *)
(***************************************************************************)
MaxUpdates == 2

(* The changes the detail modal's controls can ask for. *)
FieldChanges ==
    {[field |-> "status", value |-> W.contacted],
     [field |-> "status", value |-> W.qualified],
     [field |-> "priority", value |-> W.high]}

loadLeads(app, db) == [app EXCEPT !.leads = db.leads]

showLeadDetail(app, leadId) ==
    IF leadId \in DOMAIN app.leads THEN [app EXCEPT !.currentLead = leadId]
    ELSE app

(* updateLeadField after its await: the local copies, written through       *)
(* this.currentLead as it is by then.                                       *)
updateSettled(app, request, outcome) ==
    IF outcome = "ok"
    THEN [app EXCEPT !.leads[app.currentLead][request.field] = request.value]
    ELSE app

(* What the update of a row can answer. *)
UpdateOutcomes(request) ==
    {"error"}
        \cup (IF request.field = "status" => request.value \in leads_status_check
              THEN {"ok"} ELSE {})

(* loadInitialData: the leads are read from the table. *)
LoadLeads ==
    /\ DOMAIN crmApp.leads = {}
    /\ crmApp' = loadLeads(crmApp, supabase)
    /\ UNCHANGED <<loaderVars, filtersManager, leadsFormManager,
                   apartmentDetailsManager, supabase>>

(* A click on a lead of the table or the dashboard. *)
ShowLeadDetail ==
    /\ \E leadId \in LeadIds :
           crmApp' = showLeadDetail(crmApp, leadId)
    /\ UNCHANGED <<loaderVars, filtersManager, leadsFormManager,
                   apartmentDetailsManager, supabase>>

(* A control of the detail modal changes: updateLeadField up to its await. *)
UpdateLeadField ==
    /\ crmApp.currentLead # 0
    /\ Len(supabase.updates) < MaxUpdates
    /\ \E change \in FieldChanges :
           supabase' =
               [supabase EXCEPT
                   !.updates = Append(@, [id |-> crmApp.currentLead,
                                          field |-> change.field,
                                          value |-> change.value])]
    /\ UNCHANGED <<loaderVars, filtersManager, leadsFormManager,
                   apartmentDetailsManager, crmApp>>

(* An update request is answered. *)
UpdateSettles ==
    /\ \E k \in 1..Len(supabase.updates) :
           LET request == supabase.updates[k]
           IN  \E outcome \in UpdateOutcomes(request) :
                   /\ crmApp' = updateSettled(crmApp, request, outcome)
                   /\ supabase' =
                          [supabase EXCEPT
                              !.updates = RemoveAt(@, k),
                              !.leads[request.id][request.field] =
                                  IF outcome = "ok" THEN request.value ELSE @]
    /\ UNCHANGED <<loaderVars, filtersManager, leadsFormManager,
                   apartmentDetailsManager>>

NextCRM ==
    \/ LoadLeads
    \/ ShowLeadDetail
    \/ UpdateLeadField
    \/ UpdateSettles

SpecCRM == Init /\ [][NextCRM]_vars

(***************************************************************************)
(* Properties.  The filters the properties quantify over, and the terms of  *)
(* the specification they are stated in.                                    *)
(***************************************************************************)
BedroomChoices == {Num(2), Num(3)}

FloorRanges == {<<Num(1), Num(5)>>, <<Num(0), Num(24)>>}

AreaRanges == {<<Num(50), Num(100)>>, <<Num(30), Num(200)>>}

StatusChoices == {"available", "sold"}

FilterSpace ==
    [bedrooms : SUBSET BedroomChoices, floors : FloorRanges,
     area : AreaRanges, status : SUBSET StatusChoices]

Range(seq) == {seq[k] : k \in 1..Len(seq)}

(* "id, trimmed and upper-cased, starts with the office-space prefix" *)
OfficeId(id) == startsWith(toUpperCase(trim(id)), K.officePrefix)

(* The four conditions as the specification words them. *)
BedroomCondition(r, f) == Truthy(r.isOfficeSpace) \/ r.bedrooms \in f.bedrooms

FloorCondition(r, f) ==
    r.floor # null /\ f.floors[1] <= r.floor /\ r.floor <= f.floors[2]

AreaCondition(r, f) ==
    r.area # null /\ f.area[1] <= r.area /\ r.area <= f.area[2]

StatusCondition(r, f) == f.status = {} \/ r.status \in f.status

Satisfies(r, f) ==
    /\ BedroomCondition(r, f)
    /\ FloorCondition(r, f)
    /\ AreaCondition(r, f)
    /\ StatusCondition(r, f)

Loaded == lastCall.cause # "none"

(* C1: for every filter, getFilteredApartments returns exactly the records  *)
(* that satisfy the four conditions (office space or bedrooms in the        *)
(* filter's set; floor non-null and within [lo, hi]; area non-null and      *)
(* within [lo, hi]; status set empty or holding the record's status), in    *)
(* their input order, none added, dropped, reordered or repeated.           *)
C1_FilterContract ==
    \A f \in FilterSpace :
        getFilteredApartments(manager.apartments, f)
            = SelectSeq(manager.apartments, LAMBDA r : Satisfies(r, f))

(* C2: with an empty bedrooms set every record that is not office space is  *)
(* left out; with an empty status set every record that passes the          *)
(* bedroom, floor and area conditions is returned, whatever its status.     *)
C2_EmptySetsAsymmetric ==
    \A f \in FilterSpace :
        LET result == Range(getFilteredApartments(manager.apartments, f))
        IN  \A i \in 1..Len(manager.apartments) :
                LET r == manager.apartments[i]
                IN  /\ (f.bedrooms = {} /\ ~Truthy(r.isOfficeSpace))
                           => r \notin result
                    /\ (/\ f.status = {}
                        /\ BedroomCondition(r, f)
                        /\ FloorCondition(r, f)
                        /\ AreaCondition(r, f)) => r \in result

(* An empty-bedrooms, empty-status filter was applied to a loaded set that  *)
(* holds office and other records: some are returned, some left out.        *)
C2_Witness ==
    /\ view.op = "filter"
    /\ view.filters.bedrooms = {}
    /\ view.filters.status = {}
    /\ \E i \in 1..Len(manager.apartments) :
           ~Truthy(manager.apartments[i].isOfficeSpace)
    /\ view.resultCount > 0
    /\ view.resultCount < Len(manager.apartments)
    /\ view.resultCount
           = Len(getFilteredApartments(manager.apartments, view.filters))

(* C3: a loaded record whose id, trimmed and upper-cased, starts with the   *)
(* office-space prefix is in the results of two filters that differ only    *)
(* in their bedrooms set, or in neither.                                    *)
C3_OfficeIgnoresBedrooms ==
    \A i \in 1..Len(manager.apartments) :
        LET r == manager.apartments[i]
        IN  OfficeId(r.id) =>
                \A f \in FilterSpace : \A b \in SUBSET BedroomChoices :
                    LET g == [f EXCEPT !.bedrooms = b]
                    IN  (r \in Range(getFilteredApartments(manager.apartments, f)))
                        <=> (r \in Range(getFilteredApartments(manager.apartments, g)))

(* A record with a lower-case office id was loaded beside another record    *)
(* and came back from a filter with an empty bedrooms set.                  *)
C3_Witness ==
    /\ view.op = "filter"
    /\ view.filters.bedrooms = {}
    /\ \E i \in 1..Len(manager.apartments) :
           LET r == manager.apartments[i]
           IN  /\ OfficeId(r.id)
               /\ r.id # toUpperCase(r.id)
               /\ r \in Range(getFilteredApartments(manager.apartments,
                                                    view.filters))
    /\ view.resultCount
           = Len(getFilteredApartments(manager.apartments, view.filters))

(* The sample sets loadSampleData can leave. *)
SampleSets == {loadSampleData(randoms).apartments : randoms \in RandomStreams}

FailureCauses ==
    {"fetchRejected", "fetchAborted", "httpError", "emptyBody", "htmlBody"}

NonBlankLines(body) == SelectSeq(body, LAMBDA line : ~IsBlank(line))

(* "first row contains no cell with anchor1 or no cell with anchor2" *)
LacksAnchor(lines) ==
    LET row1 == parseCSVLine(lines[1])
        Has(marker) ==
            \E i \in 1..Len(row1) : includes(toLowerCase(row1[i]), marker)
    IN  ~Has(K.anchor1) \/ ~Has(K.anchor2)

AnchorlessBodies ==
    {body \in Bodies :
        NonBlankLines(body) # <<>> /\ LacksAnchor(NonBlankLines(body))}

AnchorlessOutcomes ==
    {parseAnchorSystem(NonBlankLines(body)).success : body \in AnchorlessBodies}

(* C5: parseAnchorSystem reports failure for every CSV whose first row has  *)
(* no cell with anchor1 or no cell with anchor2, and the loadData call that *)
(* met it leaves the sample set: at most 81 records, each with a status of  *)
(* available, reserved or sold.                                             *)
C5_MissingAnchorFallsBack ==
    /\ AnchorlessOutcomes \subseteq {FALSE}
    /\ lastCall.cause = "noAnchors" =>
           /\ lastCall.result = "false"
           /\ manager.apartments \in SampleSets
           /\ Len(manager.apartments) <= 81
           /\ \A i \in 1..Len(manager.apartments) :
                  manager.apartments[i].status
                      \in {"available", "reserved", "sold"}

(* A call met a sheet without an anchor after an earlier call had loaded a  *)
(* sheet, and the sample set is in place.                                   *)
C5_Witness ==
    /\ lastCall.cause = "noAnchors"
    /\ UnanchoredSheets \subseteq AnchorlessBodies
    /\ manager.data # NoData
    /\ Len(manager.apartments) > 0
    /\ manager.apartments \in SampleSets

(* The record sets of the fully normalized loads of the sheets a call may   *)
(* meet, built from the parser and the normalizer alone.                    *)
NormalizedLoads ==
    {extractAndProcessApartmentData(
         parseAnchorSystem(NonBlankLines(body)).apartments, randoms) :
        body \in CoreBodies \ (AnchorlessBodies \cup EmptyBodies),
        randoms \in RandomStreams}

CompleteSets == SampleSets \cup NormalizedLoads

(* C6: whenever a reader (getFilteredApartments, getApartmentById from a UI *)
(* handler) can run, at whatever await point the loadData calls in flight   *)
(* are, the record set it reads is the complete set of one fully            *)
(* normalized load or the complete sample set.                              *)
C6_ReadersSeeCompleteSets ==
    manager.isLoaded => manager.apartments \in CompleteSets

(* A reader ran on the set of a normalized load while one call awaited      *)
(* fetch and another awaited response.text().                               *)
C6_Witness ==
    /\ view.op # "none"
    /\ fetching > 0
    /\ reading > 0
    /\ manager.apartments \in NormalizedLoads
    /\ Len(manager.apartments) > 0

(* C7: after a completed load every record's area, when present, lies      *)
(* strictly between 15 and 500, whichever method set it.                    *)
C7_AreaInsideBand ==
    Loaded =>
        \A i \in 1..Len(manager.apartments) :
            LET area == manager.apartments[i].area
            IN  area # null => (area > Num(15) /\ area < Num(500))

(* A sheet was loaded in which one record took its area from a keyword      *)
(* column and another, whose keyword column holds 600, from the candidates. *)
C7_Witness ==
    /\ lastCall.cause = "sheet"
    /\ \E i, j \in 1..Len(manager.apartments) :
           /\ manager.apartments[i].areaDetectionMethod.method = "keyword"
           /\ manager.apartments[j].areaDetectionMethod.method = "pattern"
           /\ manager.apartments[j].area # null

(* C8: after a completed load no two records have the same id. *)
C8_IdsUnique ==
    Loaded =>
        \A i, j \in 1..Len(manager.apartments) :
            i # j => manager.apartments[i].id # manager.apartments[j].id

(* C9: after normalization every office-space record has bedrooms = null,   *)
(* whatever its columns hold.                                               *)
C9_OfficeBedroomsNull ==
    lastCall.cause = "sheet" =>
        \A i \in 1..Len(manager.apartments) :
            OfficeId(manager.apartments[i].id)
                => manager.apartments[i].bedrooms = null

PriceValue == <<"EUR", "1", "2", "5", ",", "0", "0", "0">>

PriceLabelled(subject) ==
    \/ includes(toLowerCase(subject), K.price)
    \/ includes(toLowerCase(subject), K.cena)

(* C10: for a record with a price-labelled column whose value is            *)
(* "EUR125,000" (written with the euro sign), the number extracted from the *)
(* value is outside the band (15, 500) and the record's area is not taken   *)
(* from that column by any of the three passes.                             *)
C10_PriceNeverArea ==
    lastCall.cause = "sheet" =>
        \A i \in 1..Len(manager.apartments) :
            LET r == manager.apartments[i]
                entries == ObjectEntries(r.data)
            IN  \A k \in 1..Len(entries) :
                    (PriceLabelled(entries[k][1])
                        /\ trim(entries[k][2].value) = PriceValue)
                    => /\ ~(extractNumber(PriceValue) > Num(15)
                            /\ extractNumber(PriceValue) < Num(500))
                       /\ r.areaDetectionMethod.subject # entries[k][1]

(* The table of the specification: token -> status. *)
StatusTable ==
    << <<K.one, "available">>, <<K.available, "available">>,
       <<K.free, "available">>, <<K.sloboden, "available">>,
       <<K.two, "reserved">>, <<K.reserved, "reserved">>,
       <<K.rezerviran, "reserved">>,
       <<K.three, "sold">>, <<K.sold, "sold">>, <<K.prodaden, "sold">> >>

ExpectedStatus(value) ==
    LET token == toLowerCase(trim(value))
        rows == {i \in 1..Len(StatusTable) : StatusTable[i][1] = token}
    IN  IF rows = {} THEN "available"
        ELSE StatusTable[CHOOSE i \in rows : TRUE][2]

(* C15: mapStatusValue maps every string to available, reserved or sold:    *)
(* the status the table gives for the trimmed, lower-cased token, and       *)
(* available for every token that is not in the table, the empty one        *)
(* included.                                                                *)
C15_StatusTableTotal ==
    view.op = "mapStatus" =>
        /\ view.output \in {"available", "reserved", "sold"}
        /\ view.output = ExpectedStatus(view.input)

(* C11: normalizing any extracted record leaves it with a status out of     *)
(* available, reserved and sold, a floor that is not null, an area that is  *)
(* not null and, unless it is an office space, bedrooms that are not null.  *)
C11_NormalizedFieldsValid ==
    view.op = "normalize" =>
        /\ view.output.status \in {"available", "reserved", "sold"}
        /\ view.output.floor # null
        /\ view.output.area # null
        /\ ~Truthy(view.output.isOfficeSpace) => view.output.bedrooms # null

(* Whether a column of the record gives the direct scan the field. *)
StatusDetected(r) ==
    LET entries == ObjectEntries(r.data)
    IN  \E k \in 1..Len(entries) : StatusColumn(entries[k])

FloorDetected(r) ==
    LET entries == ObjectEntries(r.data)
    IN  \E k \in 1..Len(entries) : FloorHit(entries[k])

BedroomsDetected(r) ==
    LET entries == ObjectEntries(r.data)
    IN  \E k \in 1..Len(entries) : BedroomHit(entries[k])

(* The record without the three fields a default may fill differently. *)
Undefaulted(r) == [r EXCEPT !.status = "", !.floor = null, !.bedrooms = null]

(* C12: two runs of parsing and normalizing one CSV text leave the same     *)
(* records in the same order, equal in id, isOfficeSpace, area, raw fields  *)
(* and every other field; status, floor or bedrooms may differ between the  *)
(* runs only on a record none of whose columns gave that field.             *)
C12_ReloadIdentical ==
    view.op = "loadTwice" =>
        /\ Len(view.first) = Len(view.second)
        /\ \A i \in 1..Len(view.first) :
               LET a == view.first[i]
                   b == view.second[i]
               IN  /\ Undefaulted(a) = Undefaulted(b)
                   /\ a.status # b.status => ~StatusDetected(a)
                   /\ a.floor # b.floor => ~FloorDetected(a)
                   /\ a.bedrooms # b.bedrooms => ~BedroomsDetected(a)

(* One sheet was loaded twice with different draws: a record whose floor    *)
(* comes from its columns or its id is the same in both runs, a record      *)
(* whose floor was drawn differs in its floor.                              *)
C12_Witness ==
    /\ view.op = "loadTwice"
    /\ \E i \in 1..Len(view.first) : view.first[i] = view.second[i]
    /\ \E i \in 1..Len(view.first) :
           /\ ~FloorDetected(view.first[i])
           /\ view.first[i].floor # view.second[i].floor

(* C13: two executions of loadSampleData leave the same records, field for  *)
(* field, area and raw-field values included.                               *)
C13_SampleDeterministic ==
    view.op = "sampleTwice" => view.first = view.second

(* The data rows of a sheet whose id cell, the one right of anchor1, is not *)
(* empty.                                                                   *)
RowsWithId(rows) == SelectSeq(rows, LAMBDA row : trim(row[1]) # <<>>)

(* C14: from a sheet with both anchors in row 1 parseAnchorSystem extracts  *)
(* one record for each data row (row 11 onward) whose id cell is not empty, *)
(* in the rows' order and with the row's id: a row with an empty id cell    *)
(* gives no record, and no row gives more than one.                         *)
C14_OneRecordPerIdRow ==
    view.op = "parse" =>
        LET apartments == view.result.apartments
            expected == RowsWithId(view.rows)
        IN  /\ view.result.success
            /\ Len(apartments) = Len(expected)
            /\ \A i \in 1..Len(apartments) :
                   apartments[i].id = trim(expected[i][1])
            /\ \A i \in 1..Len(apartments), j \in 1..Len(apartments) :
                   i < j => apartments[i].rowIndex < apartments[j].rowIndex

(* A sheet was parsed that holds a row with an id and a row with an empty   *)
(* id cell: it gave fewer records than it has rows.                         *)
C14_Witness ==
    /\ view.op = "parse"
    /\ \E r \in 1..Len(view.rows) : view.rows[r][1] = <<>>
    /\ Len(view.result.apartments) > 0
    /\ Len(view.result.apartments) < Len(view.rows)
    /\ Len(view.result.apartments) = Len(RowsWithId(view.rows))

(* The numbers, or the statuses, the entries of a record that pass a test   *)
(* of the direct scan would give.                                           *)
AreaValues(r) ==
    LET entries == ObjectEntries(r.data)
    IN  {extractNumber(EntryValue(entries[k])) :
            k \in {i \in 1..Len(entries) : AreaHit(entries[i])}}

SubjectValues(r) ==
    LET entries == ObjectEntries(r.data)
    IN  {extractNumber(EntryValue(entries[k])) :
            k \in {i \in 1..Len(entries) : SubjectHit(entries[i])}}

CandidateNumbers(r) ==
    LET entries == ObjectEntries(r.data)
    IN  {extractNumber(EntryValue(entries[k])) :
            k \in {i \in 1..Len(entries) : IsCandidate(entries[i])}}

BedroomValues(r) ==
    LET entries == ObjectEntries(r.data)
    IN  {extractNumber(EntryValue(entries[k])) :
            k \in {i \in 1..Len(entries) : BedroomHit(entries[i])}}

FloorValues(r) ==
    LET entries == ObjectEntries(r.data)
    IN  {extractNumber(EntryValue(entries[k])) :
            k \in {i \in 1..Len(entries) : FloorHit(entries[i])}}

StatusValues(r) ==
    LET entries == ObjectEntries(r.data)
    IN  {mapStatusValue(EntryValue(entries[k])) :
            k \in {i \in 1..Len(entries) : StatusColumn(entries[i])}}

(* C16: in the normalization of one record the area is a value of the       *)
(* direct scan whenever the direct scan accepts one, of the subject-pattern *)
(* fallback only if the direct scan accepts none, of a candidate only if    *)
(* neither accepts one, and the default only if there is no candidate       *)
(* either; bedrooms, floor and status are values of the direct scan         *)
(* whenever it finds one, the default only otherwise.                       *)
C16_StrongerMethodKept ==
    view.op = "normalize" =>
        LET in == view.input
            out == view.output
            method == out.areaDetectionMethod.method
            isOffice == Truthy(out.isOfficeSpace)
        IN  /\ AreaValues(in) # {}
                => method = "keyword" /\ out.area \in AreaValues(in)
            /\ method = "subject"
                => AreaValues(in) = {} /\ out.area \in SubjectValues(in)
            /\ method = "pattern"
                => /\ AreaValues(in) = {} /\ SubjectValues(in) = {}
                   /\ out.area \in CandidateNumbers(in)
            /\ method = "default"
                => /\ AreaValues(in) = {} /\ SubjectValues(in) = {}
                   /\ CandidateNumbers(in) = {}
                   /\ out.area = DefaultArea(isOffice, out.bedrooms)
            /\ IF BedroomValues(in) # {} THEN out.bedrooms \in BedroomValues(in)
               ELSE out.bedrooms = IF isOffice THEN null
                                   ELSE DefaultBedrooms(in.id)
            /\ IF FloorValues(in) # {} THEN out.floor \in FloorValues(in)
               ELSE isOffice \/ \E k \in 1..Len(RandomValues) :
                                    out.floor = DefaultFloor(in.id, RandomValues[k])
            /\ IF StatusValues(in) # {} THEN out.status \in StatusValues(in)
               ELSE out.status = randomStatuses[(view.index % 5) + 1]

(* A record was normalized whose columns give the direct scan an area and   *)
(* the subject-pattern fallback another, beside a candidate: the area is    *)
(* the direct scan's.                                                       *)
C16_Witness ==
    /\ view.op = "normalize"
    /\ view.output.areaDetectionMethod.method = "keyword"
    /\ view.output.area \in AreaValues(view.input)
    /\ SubjectValues(view.input) \ {view.output.area} # {}
    /\ CandidateNumbers(view.input) # {}

(* A schema column as the entry the scan would see if it stood alone. *)
ColumnEntry(column) ==
    <<column.subject, [filterKeyword |-> column.keyword, value |-> column.value]>>

(* The first column, in schema order, that gives a field its value; 0 when  *)
(* none does.                                                               *)
FirstStatusColumn(columns) ==
    FirstHit({k \in 1..Len(columns) : StatusColumn(ColumnEntry(columns[k]))})

FirstBedroomColumn(columns) ==
    FirstHit({k \in 1..Len(columns) : BedroomHit(ColumnEntry(columns[k]))})

FirstFloorColumn(columns) ==
    FirstHit({k \in 1..Len(columns) : FloorHit(ColumnEntry(columns[k]))})

FirstAreaColumn(columns) ==
    FirstHit({k \in 1..Len(columns) : AreaHit(ColumnEntry(columns[k]))})

(* C17: in the direct scan each of status, bedrooms, floor and area takes   *)
(* the value of the first column, in column-index order, that matches the   *)
(* field's test and (for the three numbers) passes its range check,         *)
(* whatever the subjects of the columns are.                                *)
C17_FirstSchemaColumnWins ==
    view.op = "normalize" =>
        LET columns == view.columns
            out == view.output
            Number(k) == extractNumber(trim(columns[k].value))
        IN  /\ FirstStatusColumn(columns) # 0
                => out.status
                     = mapStatusValue(trim(columns[FirstStatusColumn(columns)].value))
            /\ FirstBedroomColumn(columns) # 0
                => out.bedrooms = Number(FirstBedroomColumn(columns))
            /\ FirstFloorColumn(columns) # 0
                => out.floor = Number(FirstFloorColumn(columns))
            /\ FirstAreaColumn(columns) # 0
                => out.area = Number(FirstAreaColumn(columns))

(* The last column of the schema that carries the subject (1-based among    *)
(* the columns after anchor1, which stands in column 0).                    *)
LastColumnOf(columns, subject) ==
    CHOOSE k \in 1..Len(columns) :
        /\ columns[k].subject = subject
        /\ \A j \in 1..Len(columns) : columns[j].subject = subject => j <= k

(* C18: when schema columns share their primary-language subject, the       *)
(* raw-field map of every record holds one entry for that subject, with the *)
(* cell, filter keyword, visibility and column index of the last of those   *)
(* columns.                                                                 *)
C18_LaterColumnOverwrites ==
    view.op = "parse" =>
        \A a \in 1..Len(view.result.apartments) :
            LET apartment == view.result.apartments[a]
                row == view.rows[apartment.rowIndex - 9]
            IN  \A c \in 1..Len(view.columns) :
                    LET subject == view.columns[c].subject
                        last == LastColumnOf(view.columns, subject)
                        held == {i \in 1..Len(apartment.data) :
                                    apartment.data[i][1] = subject}
                    IN  /\ Cardinality(held) = 1
                        /\ \A i \in held :
                               LET field == apartment.data[i][2]
                               IN  /\ field.value = trim(row[last])
                                   /\ field.filterKeyword
                                          = view.columns[last].keyword
                                   /\ field.isVisible
                                          = isChecked(view.columns[last].checkbox)
                                   /\ field.columnIndex = last

(* A sheet with two columns of one subject was parsed: a record whose row   *)
(* holds different cells in the two has the later cell, keyword, visibility *)
(* and index under that subject, and the earlier cell nowhere.              *)
C18_Witness ==
    /\ view.op = "parse"
    /\ \E a \in 1..Len(view.result.apartments) :
           LET apartment == view.result.apartments[a]
               row == view.rows[apartment.rowIndex - 9]
           IN  \E c \in 1..Len(view.columns), d \in 1..Len(view.columns) :
                   /\ c < d
                   /\ view.columns[c].subject = view.columns[d].subject
                   /\ view.columns[c].keyword # view.columns[d].keyword
                   /\ isChecked(view.columns[c].checkbox)
                   /\ ~isChecked(view.columns[d].checkbox)
                   /\ row[c] # row[d]
                   /\ \A i \in 1..Len(apartment.data) :
                          apartment.data[i][2].value # row[c]
                   /\ \E i \in 1..Len(apartment.data) :
                          /\ apartment.data[i][1] = view.columns[d].subject
                          /\ apartment.data[i][2].value = row[d]
                          /\ apartment.data[i][2].columnIndex = d
                          /\ ~apartment.data[i][2].isVisible

(* The direct scan's rule for bedrooms, for a range (low, 10]: the record   *)
(* gets the number of the first bedroom-matching entry, in the order of the *)
(* scan, whose number lies in the range; the entries before it are passed   *)
(* over; with no such entry the record gets the default.                    *)
BedroomScanRule(low) ==
    LET entries == ObjectEntries(view.input.data)
        Number(i) == extractNumber(EntryValue(entries[i]))
        accepted == {i \in 1..Len(entries) :
                        /\ BedroomColumn(entries[i])
                        /\ Number(i) > low
                        /\ Number(i) <= Num(10)}
    IN  IF accepted # {}
        THEN view.output.bedrooms = Number(FirstHit(accepted))
        ELSE view.output.bedrooms
                 = IF Truthy(view.output.isOfficeSpace) THEN null
                   ELSE DefaultBedrooms(view.input.id)

(* C19, as the code has it: the value of a bedroom-matching column is       *)
(* accepted as the record's bedrooms only if its number n has 0 < n <= 10;  *)
(* any other value is rejected and the scan goes on with the following      *)
(* columns.                                                                 *)
C19_BedroomRange ==
    view.op = "normalize" => BedroomScanRule(0)

(* C19 as stated: the value is accepted only if 1 < n <= 10. *)
C19_AsStated ==
    view.op = "normalize" => BedroomScanRule(Num(1))

(* A record was normalized whose first bedroom column holds 0, which is     *)
(* rejected, and whose next one holds 1, which becomes its bedrooms.        *)
C19_Witness ==
    /\ view.op = "normalize"
    /\ view.output.bedrooms = Num(1)
    /\ LET entries == ObjectEntries(view.input.data)
       IN  \E i \in 1..Len(entries), j \in 1..Len(entries) :
               /\ i < j
               /\ BedroomColumn(entries[i])
               /\ extractNumber(EntryValue(entries[i])) = 0
               /\ BedroomColumn(entries[j])
               /\ extractNumber(EntryValue(entries[j])) = Num(1)

(* The rule of the candidate analysis for a record whose area neither the   *)
(* direct scan nor the subject-pattern fallback sets: the candidates are    *)
(* the entries whose number lies between 20 and 300, the ends counted in    *)
(* or, if strict, left out; the area is the number of the candidate of the  *)
(* highest priority, the first in the order of the scan among equals, and   *)
(* the default when there is no candidate.                                  *)
CandidateRule(strict) ==
    LET entries == ObjectEntries(view.input.data)
        out == view.output
        Number(i) == extractNumber(EntryValue(entries[i]))
        Priority(i) ==
            calculateAreaPriority(entries[i][1], entries[i][2].columnIndex)
        candidates ==
            {i \in 1..Len(entries) :
                IF strict THEN Number(i) > Num(20) /\ Number(i) < Num(300)
                ELSE Number(i) >= Num(20) /\ Number(i) <= Num(300)}
        best == CHOOSE i \in candidates :
                    \A j \in candidates :
                        \/ Priority(j) < Priority(i)
                        \/ Priority(j) = Priority(i) /\ i <= j
    IN  (AreaValues(view.input) = {} /\ SubjectValues(view.input) = {}) =>
            IF candidates = {}
            THEN /\ out.areaDetectionMethod.method = "default"
                 /\ out.area = DefaultArea(Truthy(out.isOfficeSpace), out.bedrooms)
            ELSE /\ out.areaDetectionMethod
                        = [method |-> "pattern", subject |-> entries[best][1]]
                 /\ out.area = Number(best)

(* C20, as the code has it: when neither the direct scan nor the            *)
(* subject-pattern fallback sets the area, the candidates are exactly the   *)
(* raw fields whose number n has 20 <= n <= 300; the area is the value of   *)
(* the candidate with the highest priority score, the first-seen among      *)
(* equal scores, and the default when there is none.                        *)
C20_CandidateSelection ==
    view.op = "normalize" => CandidateRule(FALSE)

(* C20 as stated: the candidates are the raw fields with 20 < n < 300. *)
C20_AsStated ==
    view.op = "normalize" => CandidateRule(TRUE)

(* A record was normalized that has two candidates of equal priority, the   *)
(* first-seen holding 20: its area is 20, taken by pattern analysis.        *)
C20_Witness ==
    /\ view.op = "normalize"
    /\ view.output.areaDetectionMethod.method = "pattern"
    /\ view.output.area = Num(20)
    /\ LET entries == ObjectEntries(view.input.data)
       IN  \E i \in 1..Len(entries), j \in 1..Len(entries) :
               /\ i < j
               /\ IsCandidate(entries[i])
               /\ IsCandidate(entries[j])
               /\ extractNumber(EntryValue(entries[i])) = Num(20)
               /\ extractNumber(EntryValue(entries[j])) # Num(20)
               /\ calculateAreaPriority(entries[i][1], entries[i][2].columnIndex)
                      = calculateAreaPriority(entries[j][1],
                                              entries[j][2].columnIndex)

(* C21: a column is visible exactly when its checkbox cell is the           *)
(* checked-box glyph, the word true in any letter case, or the literal 1;   *)
(* every other cell, the empty one and longer texts that contain true       *)
(* included, leaves it invisible.                                           *)
C21_VisibleIffToken ==
    view.op = "checkbox" =>
        (view.output <=> \/ view.input = K.checked
                         \/ toLowerCase(view.input) = K.true
                         \/ view.input = K.one)

(* The number of double quotes among the first n characters of a line. *)
QuotesBefore(line, n) == Cardinality({i \in 1..n : line[i] = "\""})

(* The commas of a line that lie outside quoted spans, in ascending order. *)
SplittingCommas(line) ==
    {i \in 1..Len(line) : line[i] = "," /\ QuotesBefore(line, i) % 2 = 0}

(* The k-th piece of a line cut at the positions in cuts. *)
Piece(line, cuts, k) ==
    LET before == {0} \cup cuts
        after == cuts \cup {Len(line) + 1}
        from == CHOOSE i \in before : Cardinality({j \in before : j < i}) = k - 1
        to == CHOOSE i \in after : Cardinality({j \in after : j < i}) = k - 1
    IN  SubSeq(line, from + 1, to - 1)

(* C22: for every line, unbalanced quotes included, parseCSVLine returns    *)
(* the pieces between the commas that an even number of double quotes       *)
(* precedes, one more piece than there are such commas, each without its    *)
(* double quotes and trimmed; a comma inside quotes splits nothing.         *)
C22_SplitsOutsideQuotes ==
    view.op = "csv" =>
        LET cuts == SplittingCommas(view.input)
            cells == view.output
        IN  /\ Len(cells) = Cardinality(cuts) + 1
            /\ \A k \in 1..Len(cells) :
                   /\ cells[k] = trim(StripQuotes(Piece(view.input, cuts, k)))
                   /\ \A i \in 1..Len(cells[k]) : cells[k][i] # "\""
                   /\ trim(cells[k]) = cells[k]

(* A line was parsed that has a comma inside quotes and one comma outside   *)
(* them: two cells, one of them holding the quoted comma.                   *)
C22_Witness ==
    /\ view.op = "csv"
    /\ \E i \in 1..Len(view.input) :
           view.input[i] = "," /\ i \notin SplittingCommas(view.input)
    /\ Cardinality(SplittingCommas(view.input)) = 1
    /\ Len(view.output) = 2
    /\ \E k \in 1..2 : view.output[k] = <<",">>

(***************************************************************************)
(* Sitting on the filters: C23, C24, C29.                                   *)
(***************************************************************************)
(* Records at the ends of what normalization can produce: ids whose floor   *)
(* part and columns whose cells are 999.                                    *)
ExtremeColumns ==
    <<[keyword |-> K.floor, subject |-> K.sprat, value |-> <<"9", "9", "9">>],
      [keyword |-> K.area, subject |-> K.vkupno \o <<" ", "m", "2">>,
       value |-> <<"9", "9", "9">>],
      [keyword |-> K.bedrooms, subject |-> K.spalni, value |-> <<"9", "9", "9">>]>>

ExtremeRecords ==
    {ProcessApartment(RawRecord(id, ExtremeColumns), 0, RandomValues[k]) :
        id \in {<<"9", "9", "9", ".", "1">>, K.officePrefix \o <<"9", "9", "9">>},
        k \in 1..Len(RandomValues)}

(* Every record set a load can leave in the manager, and the extreme records. *)
LoadableRecordSets ==
    {e.effect.apartments : e \in TextEffects}
        \cup {effect.apartments : effect \in ErrorEffects}
        \cup {<<r>> : r \in ExtremeRecords}

ClearedFilters ==
    [bedrooms |-> {}, floors |-> <<Num(999), Num(999)>>,
     area |-> <<Num(999), Num(999)>>, status |-> {}]

(* C23: a click on the clear button while clearAllState is 'active' sets    *)
(* currentFilters to no bedrooms, floors [999, 999], area [999, 999] and no *)
(* status and clearAllState to 'inactive'; with these filters               *)
(* getFilteredApartments returns no record of any record set a load can     *)
(* produce, office spaces included.                                         *)
C23_ClearShowsNothing ==
    [][(ClearAllFilters /\ filtersManager.clearAllState = "active") =>
          /\ filtersManager'.currentFilters = ClearedFilters
          /\ filtersManager'.clearAllState = "inactive"
          /\ \A apartments \in LoadableRecordSets :
                 getFilteredApartments(apartments,
                                       filtersManager'.currentFilters) = <<>>]_vars

(* The clear button was clicked once on a page whose records include an     *)
(* office space and a residence.                                            *)
C23_Witness ==
    /\ filtersManager.events = 1
    /\ filtersManager.clearAllState = "inactive"
    /\ filtersManager.savedFilters # <<>>
    /\ \E i, j \in 1..Len(manager.apartments) :
           /\ Truthy(manager.apartments[i].isOfficeSpace)
           /\ ~Truthy(manager.apartments[j].isOfficeSpace)
    /\ \E apartments \in LoadableRecordSets :
           \E i \in 1..Len(apartments) : apartments[i].floor = Num(999)

(* C24: after any sequence of clear / restore clicks, bedroom toggles,      *)
(* slider drags, track clicks and view switches, whenever clearAllState is  *)
(* 'inactive' getFilteredApartments(currentFilters) returns no record.      *)
C24_InactiveShowsNothing ==
    filtersManager.clearAllState = "inactive" =>
        getFilteredApartments(manager.apartments,
                              filtersManager.currentFilters) = <<>>

SliderTypes == {"floor", "area"}

FilterRange(fm, type) ==
    IF type = "floor" THEN fm.currentFilters.floors ELSE fm.currentFilters.area

SliderInBounds(fm, type) ==
    LET sliderData == fm.sliderInstances[type]
    IN  /\ sliderData.min <= sliderData.minValue
        /\ sliderData.minValue + Num(1) <= sliderData.maxValue
        /\ sliderData.maxValue <= sliderData.max
        /\ FilterRange(fm, type) = <<sliderData.minValue, sliderData.maxValue>>

(* C29: each slider that initializeSliders creates from a non-empty record  *)
(* set has min <= minValue, minValue + 1 <= maxValue, maxValue <= max and   *)
(* the currentFilters range [minValue, maxValue], and every handle drag and *)
(* track click keeps it so.                                                 *)
C29_SliderStaysInBounds ==
    [][\A type \in SliderTypes :
          /\ (InitializePage /\ Len(manager'.apartments) > 0)
                 => SliderInBounds(filtersManager', type)
          /\ ((DragHandle \/ TrackClick) /\ Len(manager.apartments) > 0
                  /\ SliderInBounds(filtersManager, type))
                 => SliderInBounds(filtersManager', type)]_vars

(***************************************************************************)
(* The details panel: C27.                                                  *)
(***************************************************************************)
(* showDetails has run and hideDetails has not been called since: the       *)
(* Escape listener that showDetailsPanel installs and hideDetails removes   *)
(* is still installed on a visible panel.                                   *)
ShownAndNotHidden(panel) ==
    /\ panel.keyboardHandler
    /\ panel.isVisible
    /\ panel.currentApartment # NullText

(* C27: after showDetails(a) the panel stays visible with currentApartment  *)
(* = a until hideDetails is next called or another record is shown,         *)
(* whenever the delayed callbacks of earlier hideDetails calls run.         *)
C27_ShownUntilHidden ==
    [][(ShownAndNotHidden(apartmentDetailsManager)
            /\ ~HideDetails /\ ~SwitchView /\ ~ShowDetails)
          => /\ apartmentDetailsManager'.isVisible
             /\ apartmentDetailsManager'.display = "block"
             /\ apartmentDetailsManager'.currentApartment =
                    apartmentDetailsManager.currentApartment]_vars

(***************************************************************************)
(* The lead form: C25, C26, C30.                                            *)
(***************************************************************************)
(* C25: at most one insert of the lead form is in flight at any time, and a *)
(* submit event that arrives while an insert is in flight starts no insert  *)
(* and leaves isSubmitting as it is.                                        *)
C25_OneInsertInFlight ==
    [][/\ Len(supabase'.inserts) <= 1
       /\ (SubmitForm /\ supabase.inserts # <<>>)
              => /\ supabase'.inserts = supabase.inserts
                 /\ leadsFormManager'.isSubmitting
                        = leadsFormManager.isSubmitting]_vars

(* An insert is in flight and the form holds another valid submission. *)
C25_Witness ==
    /\ leadsFormManager.isSubmitting
    /\ Len(supabase.inserts) = 1
    /\ validateFormData(collectFormData(leadsFormManager.fields))
    /\ collectFormData(leadsFormManager.fields) # supabase.inserts[1]

C30_StatusAccepted ==
    \A k \in 1..Len(supabase.inserts) :
        supabase.inserts[k].status \in leads_status_check

(***************************************************************************)
(* The CRM application: C28.                                                *)
(***************************************************************************)
(* C28: when an update request of updateLeadField is answered, either no    *)
(* local copy changes or the request succeeded and the only local copy that *)
(* changes is the one of the lead whose row was updated, which gets the     *)
(* request's value in the request's field, whichever lead showLeadDetail    *)
(* has selected meanwhile.                                                  *)
C28_LocalCopyFollowsRow ==
    [][UpdateSettles =>
          \E k \in 1..Len(supabase.updates) :
              LET request == supabase.updates[k]
              IN  /\ supabase'.updates = RemoveAt(supabase.updates, k)
                  /\ \/ /\ crmApp'.leads = crmApp.leads
                        /\ supabase'.leads = supabase.leads
                     \/ /\ supabase'.leads =
                               [supabase.leads EXCEPT
                                   ![request.id][request.field] = request.value]
                        /\ crmApp'.leads =
                               [crmApp.leads EXCEPT
                                   ![request.id][request.field] = request.value]]_vars

====
